---- MODULE Spec2Model ----
(***************************************************************************)
(* Entity Resolution Pipeline: the Identity Rule Engine                    *)
(* (apps/identity/src/identity/matcher.py), the Scan Run Tracker and the   *)
(* scanning pass (apps/scanner/src/scanner/scanner.py) and the API         *)
(* gateway's writers of the same tables (apps/api-gateway/.../main.py).    *)
(*                                                                         *)
(* Python strings are sequences of one-character strings, so that strip,   *)
(* lower, isdigit, sorted and join are computed character by character.    *)
(***************************************************************************)
EXTENDS Integers, Sequences, FiniteSets, TLC

VARIABLES
    rules,      \* table edna_identity_rules: rule_id -> row, or NoRule
    objects,    \* table edna_objects: the set of its rows
    pc,         \* per caller of match_and_upsert: "idle", "fetched", "done"
    call,       \* per caller: the arguments of the call in progress
    applied,    \* per caller: rule_id of rules[0], or NoRuleId on the fallback path
    computed,   \* per caller: the local golden_id (matcher.py:106 / :129)
    ret,        \* per caller: the value returned (matcher.py:152)
    overlap,    \* history: another call for the same tuple was in flight at the upsert
    prev,       \* history: arguments and result of the caller's previous call
    dirty,      \* history: the rule store changed since the previous call returned
    fn_in,      \* pure-function harness: the inputs drawn by Init
    fn_out,     \* pure-function harness: the results, or NoOut before the call
    source_dbs, \* table edna_source_databases: source_db_id -> row, or NoSource
    scan_run,   \* table scan_run: its rows in insertion order; scan_run_id is the index
    run_hist,   \* history, per scan_run row: who inserted it, how often it was updated
    job,        \* the scanner job: its place in scan_source_databases and its locals
    candidates, \* table edna_object_candidates: the set of its rows
    scan_profile, \* tables scan_profile_table and scan_profile_column: their rows
    worker,     \* per identity worker process: its place in process_customers, its locals
    connections, \* the database connections the processes opened and did not close
    demo_customers \* table demo_customers: its rows, or NoTable while it does not exist

storeVars == <<rules, objects>>
callVars == <<pc, call, applied, computed, ret, overlap>>
histVars == <<prev, dirty>>
engineVars == <<rules, objects, pc, call, applied, computed, ret, overlap, prev, dirty>>
fnVars == <<fn_in, fn_out>>
stagingVars == <<candidates, scan_profile>>
scanVars == <<source_dbs, scan_run, run_hist, job, candidates, scan_profile>>
matcherVars == <<rules, pc, call, applied, computed, ret, overlap, prev, dirty>>
hostVars == <<worker, connections, demo_customers>>
vars == <<rules, objects, pc, call, applied, computed, ret, overlap, prev, dirty,
          fn_in, fn_out, source_dbs, scan_run, run_hist, job, candidates, scan_profile,
          worker, connections, demo_customers>>

-----------------------------------------------------------------------------
(* Characters and strings *)

\* The characters of the model in code-point order (a subset of ASCII).
AsciiOrder ==
    << "\t", "\n", " ", "!", "%", "(", ")", "*", "-", ".",
       "0", "1", "2", "3", "4", "5", "6", "7", "8", "9", ":", "?", "@",
       "A", "B", "C", "D", "E", "F", "G", "H", "I", "J", "K", "L", "M",
       "N", "O", "P", "Q", "R", "S", "T", "U", "V", "W", "X", "Y", "Z", "_",
       "a", "b", "c", "d", "e", "f", "g", "h", "i", "j", "k", "l", "m",
       "n", "o", "p", "q", "r", "s", "t", "u", "v", "w", "x", "y", "z", "|" >>

CodePoint(c) == CHOOSE i \in 1..Len(AsciiOrder) : AsciiOrder[i] = c

UpperA == CodePoint("A")
LowerA == CodePoint("a")

IsSpace(c) == c \in {"\t", "\n", " "}
IsDigit(c) == CodePoint(c) >= CodePoint("0") /\ CodePoint(c) <= CodePoint("9")
IsUpper(c) == CodePoint(c) >= UpperA /\ CodePoint(c) <= CodePoint("Z")
IsLower(c) == CodePoint(c) >= LowerA /\ CodePoint(c) <= CodePoint("z")
IsAlnum(c) == IsDigit(c) \/ IsUpper(c) \/ IsLower(c)

LowerChar(c) == IF IsUpper(c) THEN AsciiOrder[CodePoint(c) - UpperA + LowerA] ELSE c
UpperChar(c) == IF IsLower(c) THEN AsciiOrder[CodePoint(c) - LowerA + UpperA] ELSE c

\* str.lower(), str.upper()
Lower(s) == [i \in 1..Len(s) |-> LowerChar(s[i])]
Upper(s) == [i \in 1..Len(s) |-> UpperChar(s[i])]

\* "".join(c for c in s if keep(c))
RECURSIVE KeepDigits(_)
KeepDigits(s) ==
    IF s = <<>> THEN <<>>
    ELSE (IF IsDigit(Head(s)) THEN <<Head(s)>> ELSE <<>>) \o KeepDigits(Tail(s))

RECURSIVE KeepAlnum(_)
KeepAlnum(s) ==
    IF s = <<>> THEN <<>>
    ELSE (IF IsAlnum(Head(s)) THEN <<Head(s)>> ELSE <<>>) \o KeepAlnum(Tail(s))

\* str.strip(): drop leading and trailing whitespace
RECURSIVE LStrip(_)
LStrip(s) == IF s # <<>> /\ IsSpace(Head(s)) THEN LStrip(Tail(s)) ELSE s

RECURSIVE RStrip(_)
RStrip(s) ==
    IF s # <<>> /\ IsSpace(s[Len(s)]) THEN RStrip(SubSeq(s, 1, Len(s) - 1)) ELSE s

Strip(s) == RStrip(LStrip(s))

\* Python's str ordering: lexicographic by code point, a proper prefix first.
RECURSIVE StrLess(_, _)
StrLess(s, t) ==
    IF t = <<>> THEN FALSE
    ELSE IF s = <<>> THEN TRUE
    ELSE IF Head(s) = Head(t) THEN StrLess(Tail(s), Tail(t))
    ELSE CodePoint(Head(s)) < CodePoint(Head(t))

\* sorted(list of str): insertion into an ascending list, equal items kept in order
RECURSIVE InsertSorted(_, _)
InsertSorted(x, l) ==
    IF l = <<>> THEN <<x>>
    ELSE IF StrLess(x, Head(l)) THEN <<x>> \o l
    ELSE <<Head(l)>> \o InsertSorted(x, Tail(l))

RECURSIVE Sorted(_)
Sorted(l) == IF l = <<>> THEN <<>> ELSE InsertSorted(l[Len(l)], Sorted(SubSeq(l, 1, Len(l) - 1)))

\* sep.join(list of str)
RECURSIVE Join(_, _)
Join(sep, l) ==
    IF l = <<>> THEN <<>>
    ELSE IF Len(l) = 1 THEN l[1]
    ELSE l[1] \o sep \o Join(sep, Tail(l))

\* hashlib.sha1(s.encode("utf-8")).hexdigest(): the digest is kept symbolic, as the
\* string it was taken of (SHA-1 taken as injective on the strings compared).
sha1_hexdigest(s) == [sha1 |-> s]

\* Python's None among str values (no string of the model has this element).
None == << "None" >>

\* dict.get(key, default)
DictGet(d, key, default) == IF key \in DOMAIN d THEN d[key] ELSE default

-----------------------------------------------------------------------------
(* IdentityMatcher: normalize_value and compute_golden_id *)

\* Mutant: every policy lowercases (the "lowercase" branch taken for all rules).
normalize_value_lowercased(value, rule) ==
    IF value = None THEN <<>> ELSE Lower(Strip(value))

\* matcher.py:23-41
normalize_value(value, rule) ==
    IF value = None THEN <<>>
    ELSE LET value_str == Strip(value)
         IN  CASE rule = "lowercase"         -> Lower(value_str)
               [] rule = "uppercase"         -> Upper(value_str)
               [] rule = "digits_only"       -> KeepDigits(value_str)
               [] rule = "alphanumeric_only" -> KeepAlnum(value_str)
               [] rule = "trim"              -> Strip(value_str)
               [] OTHER                      -> value_str

\* Mutant: each item replaces the list instead of being appended to it, so the list
\* holds the last key field's item only.
key_values_last_only(source_data, key_fields, normalization_rules) ==
    IF key_fields = <<>> THEN <<>>
    ELSE << key_fields[Len(key_fields)] \o <<":">> \o
            normalize_value(DictGet(source_data, key_fields[Len(key_fields)], None),
                            DictGet(normalization_rules, key_fields[Len(key_fields)],
                                    "trim")) >>

\* matcher.py:51-56: the list of "field:normalized" items, in key_fields order
key_values(source_data, key_fields, normalization_rules) ==
    [i \in 1..Len(key_fields) |->
        key_fields[i] \o <<":">> \o
        normalize_value(DictGet(source_data, key_fields[i], None),
                        DictGet(normalization_rules, key_fields[i], "trim"))]

\* Mutant: the items are joined in declaration order (sorted() dropped).
key_string_unsorted(source_data, key_fields, normalization_rules) ==
    Join(<<"|">>, key_values(source_data, key_fields, normalization_rules))

\* matcher.py:59
key_string(source_data, key_fields, normalization_rules) ==
    Join(<<"|">>, Sorted(key_values(source_data, key_fields, normalization_rules)))

\* matcher.py:43-60
compute_golden_id(source_data, key_fields, normalization_rules) ==
    sha1_hexdigest(key_string(source_data, key_fields, normalization_rules))

-----------------------------------------------------------------------------
(* The stores and the callers of IdentityMatcher.match_and_upsert *)

Callers == {"c1", "c2"}

CRM == << "c", "r", "m" >>
ERP == << "e", "r", "p" >>
CUSTOMER == << "c", "u", "s", "t", "o", "m", "e", "r" >>
EMAIL == << "e", "m", "a", "i", "l" >>
SOURCE_SYSTEM == << "s", "o", "u", "r", "c", "e", "_", "s", "y", "s", "t", "e", "m" >>
SOURCE_ID == << "s", "o", "u", "r", "c", "e", "_", "i", "d" >>

SourceSystems == {CRM, ERP}
SourceIds == { << "1" >> }
ObjectTypes == {CUSTOMER}

\* The attributes a caller may send
AttributeSets ==
    { [f \in {EMAIL} |-> << "A", "@", "x" >>],
      [f \in {EMAIL} |-> << "b", "@", "x" >>] }

RuleIds == { << "r", "1" >>, << "r", "2" >> }

\* worker.py:285: the rule_id of the identity worker's default rule
DEFAULT_RULE_ID ==
    << "r", "u", "l", "e", "-", "c", "u", "s", "t", "o", "m", "e", "r", "-",
       "d", "e", "f", "a", "u", "l", "t" >>

Workers == {"w1", "w2"}

NoRule == [absent |-> TRUE]
NoRuleId == << "None" >>
NoId == [none |-> TRUE]
NoCall == [none |-> TRUE]
NoPrev == [none |-> TRUE]

\* The rules a client may post (api_gateway/main.py:694-733): rule_name omitted
RuleInputs ==
    { [rule_id |-> id, object_type |-> CUSTOMER, source_system |-> CRM,
       key_fields |-> k.key_fields, normalization_rules |-> k.normalization_rules,
       active |-> a] :
        id \in RuleIds, a \in BOOLEAN,
        k \in { [key_fields |-> <<EMAIL>>,
                 normalization_rules |-> [f \in {EMAIL} |-> "lowercase"]],
                [key_fields |-> <<SOURCE_ID, SOURCE_SYSTEM>>,
                 normalization_rules |-> [f \in {} |-> "trim"]] } }

\* The rows of edna_identity_rules
RuleRows == { r \in { rules[id] : id \in DOMAIN rules } : r # NoRule }

\* matcher.py:70-86: WHERE active = TRUE [AND object_type = ..] [AND source_system = ..];
\* a filter is added only for a truthy (non-empty) argument.
ActiveRuleRows(object_type, source_system) ==
    { r \in RuleRows :
        /\ r.active
        /\ (object_type # <<>> => r.object_type = object_type)
        /\ (source_system # <<>> => r.source_system = source_system) }

\* Every order of the elements of a finite set
Orderings(S) ==
    { q \in [1..Cardinality(S) -> S] : \A i, j \in 1..Cardinality(S) : i # j => q[i] # q[j] }

\* matcher.py:62-87: the query has no ORDER BY, so the rows come back in any order
get_active_rules(object_type, source_system) ==
    Orderings(ActiveRuleRows(object_type, source_system))

\* matcher.py:123-127: {**attributes, "source_system": .., "source_id": ..}
match_data(source_system, source_id, attributes) ==
    [f \in DOMAIN attributes \cup {SOURCE_SYSTEM, SOURCE_ID} |->
        CASE f = SOURCE_SYSTEM -> source_system
          [] f = SOURCE_ID -> source_id
          [] OTHER -> attributes[f]]

\* matcher.py:105-106
fallback_golden_id(source_system, source_id, object_type) ==
    sha1_hexdigest(source_system \o <<"|">> \o source_id \o <<"|">> \o object_type)

\* matcher.py:100-129: the golden_id local, given the list get_active_rules returned
local_golden_id(rs, source_system, source_id, object_type, attributes) ==
    IF rs = <<>>
    THEN fallback_golden_id(source_system, source_id, object_type)
    ELSE compute_golden_id(match_data(source_system, source_id, attributes),
                           rs[1].key_fields, rs[1].normalization_rules)

\* The rows of edna_objects with the given source tuple
RowsFor(objs, source_system, source_id, object_type) ==
    { o \in objs : /\ o.source_system = source_system
                   /\ o.source_id = source_id
                   /\ o.object_type = object_type }

NewRow(golden_id, source_system, source_id, object_type, attributes) ==
    [golden_id |-> golden_id, source_system |-> source_system, source_id |-> source_id,
     object_type |-> object_type, attributes |-> attributes]

\* Mutant: a plain INSERT, no ON CONFLICT arbitration.
insert_plain(objs, golden_id, source_system, source_id, object_type, attributes) ==
    objs \cup {NewRow(golden_id, source_system, source_id, object_type, attributes)}

\* Mutant: DO UPDATE SET also overwrites golden_id.
upsert_overwriting_id(objs, golden_id, source_system, source_id, object_type, attributes) ==
    (objs \ RowsFor(objs, source_system, source_id, object_type))
    \cup {NewRow(golden_id, source_system, source_id, object_type, attributes)}

\* matcher.py:134-143: INSERT .. ON CONFLICT (source_system, source_id, object_type)
\* DO UPDATE SET attributes = EXCLUDED.attributes, updated_at = NOW(): one atomic
\* statement; a conflicting row keeps its golden_id. (attributes holds str and None
\* values, which json.dumps and the jsonb column give back unchanged.)
upsert_object(objs, golden_id, source_system, source_id, object_type, attributes) ==
    LET old == RowsFor(objs, source_system, source_id, object_type)
    IN  IF old = {}
        THEN objs \cup {NewRow(golden_id, source_system, source_id, object_type, attributes)}
        ELSE (objs \ old) \cup { [o EXCEPT !.attributes = attributes] : o \in old }

\* Mutant: the caller's local golden_id is returned, not the RETURNING value.
returned_local_id(objs, golden_id, source_system, source_id, object_type) ==
    golden_id

\* matcher.py:142-152: RETURNING golden_id gives the stored row's golden_id
returned_golden_id(objs, golden_id, source_system, source_id, object_type) ==
    LET row == RowsFor(objs, source_system, source_id, object_type)
    IN  IF row = {} THEN golden_id ELSE (CHOOSE o \in row : TRUE).golden_id

\* An identity worker that is not running
IdleWorker ==
    [pc |-> "idle", dry_run |-> FALSE, key_fields |-> <<>>, normalization_rules |-> <<>>, rows |-> <<>>,
     idx |-> 0, existing |-> FALSE, golden_id |-> NoId, aborted |-> FALSE,
     stats |-> [processed |-> 0, created |-> 0, updated |-> 0, errors |-> 0]]

NoTable == [absent |-> TRUE]

\* No connection is open, the Scanner has no cached connection
NoConnections == [unclosed |-> 0, edna_conn |-> FALSE, operations |-> 0]

\* The stores are empty, no call is in progress; demo_customers is as given
EngineInitWith(table) ==
    /\ worker = [w \in Workers |-> IdleWorker]
    /\ connections = NoConnections
    /\ demo_customers = table
    /\ rules = [id \in RuleIds \cup {DEFAULT_RULE_ID} |-> NoRule]
    /\ objects = {}
    /\ pc = [c \in Callers |-> "idle"]
    /\ call = [c \in Callers |-> NoCall]
    /\ applied = [c \in Callers |-> NoRuleId]
    /\ computed = [c \in Callers |-> NoId]
    /\ ret = [c \in Callers |-> NoId]
    /\ overlap = [c \in Callers |-> FALSE]
    /\ prev = [c \in Callers |-> NoPrev]
    /\ dirty = [c \in Callers |-> FALSE]

EngineInit == EngineInitWith(NoTable)

\* api_gateway/main.py:694-733: INSERT .. ON CONFLICT (rule_id) DO UPDATE
create_identity_rule(rule) ==
    /\ rules' = [rules EXCEPT ![rule.rule_id] = rule]
    /\ UNCHANGED objects
    /\ UNCHANGED callVars
    /\ UNCHANGED <<fnVars, scanVars, hostVars>>

\* matcher.py:97-129: the first half of match_and_upsert, up to the golden_id local
match_fetch(c, source_system, source_id, object_type, attributes) ==
    /\ pc[c] = "idle"
    /\ \E rs \in get_active_rules(object_type, source_system) :
        /\ applied' = [applied EXCEPT ![c] = IF rs = <<>> THEN NoRuleId ELSE rs[1].rule_id]
        /\ computed' = [computed EXCEPT ![c] =
               local_golden_id(rs, source_system, source_id, object_type, attributes)]
    /\ call' = [call EXCEPT ![c] =
           [source_system |-> source_system, source_id |-> source_id,
            object_type |-> object_type, attributes |-> attributes]]
    /\ pc' = [pc EXCEPT ![c] = "fetched"]
    /\ UNCHANGED <<rules, objects, ret, overlap>>
    /\ UNCHANGED <<fnVars, scanVars, hostVars>>

SameTuple(a, b) ==
    /\ a.source_system = b.source_system
    /\ a.source_id = b.source_id
    /\ a.object_type = b.object_type

\* matcher.py:131-152: the second half of match_and_upsert, the upsert statement
match_upsert(c) ==
    /\ pc[c] = "fetched"
    /\ objects' = upsert_object(objects, computed[c], call[c].source_system,
                                call[c].source_id, call[c].object_type, call[c].attributes)
    /\ ret' = [ret EXCEPT ![c] =
           returned_golden_id(objects', computed[c], call[c].source_system,
                              call[c].source_id, call[c].object_type)]
    /\ overlap' = [overlap EXCEPT ![c] =
           \E d \in Callers \ {c} : pc[d] = "fetched" /\ SameTuple(call[d], call[c])]
    /\ pc' = [pc EXCEPT ![c] = "done"]
    /\ UNCHANGED <<rules, call, applied, computed>>
    /\ UNCHANGED <<fnVars, scanVars, hostVars>>

\* History: the rule store changed after a caller's previous call returned
NoteRuleChange ==
    /\ dirty' = [c \in Callers |-> prev[c] # NoPrev /\ (dirty[c] \/ rules' # rules)]
    /\ UNCHANGED prev

\* History: the call that just returned becomes the caller's previous call
Remember(c) ==
    /\ prev' = [prev EXCEPT ![c] = [call |-> call[c], ret |-> ret[c]]]
    /\ dirty' = [dirty EXCEPT ![c] = FALSE]

\* The caller takes the result; its next call may start
match_return(c) ==
    /\ pc[c] = "done"
    /\ pc' = [pc EXCEPT ![c] = "idle"]
    /\ call' = [call EXCEPT ![c] = NoCall]
    /\ applied' = [applied EXCEPT ![c] = NoRuleId]
    /\ computed' = [computed EXCEPT ![c] = NoId]
    /\ ret' = [ret EXCEPT ![c] = NoId]
    /\ overlap' = [overlap EXCEPT ![c] = FALSE]
    /\ UNCHANGED <<rules, objects>>
    /\ UNCHANGED <<fnVars, scanVars, hostVars>>

-----------------------------------------------------------------------------
(* IdentityWorker.process_customers *)

DEMO == << "d", "e", "m", "o" >>
CUSTOMER_ID == << "c", "u", "s", "t", "o", "m", "e", "r", "_", "i", "d" >>
PHONE == << "p", "h", "o", "n", "e" >>

CREATED_AT == << "c", "r", "e", "a", "t", "e", "d", "_", "a", "t" >>

\* A datetime.datetime, as the cursor returns it for a TIMESTAMP WITH TIME ZONE column
Datetime == << "datetime" >>

\* The first two rows of a table demo_customers that was there before the worker
\* ran (worker.py:85-86 takes an existing table as it is): customer_id, email, phone
ExistingCustomers ==
    << (CUSTOMER_ID :> << "C", "U", "S", "T", "-", "0", "0", "1" >>
        @@ EMAIL :> << "a", "l", "i", "c", "e", "@", "x" >>
        @@ PHONE :> << "5", "5", "5", "-", "1", "2", "3" >>),
       (CUSTOMER_ID :> << "C", "U", "S", "T", "-", "0", "0", "2" >>
        @@ EMAIL :> << "b", "o", "b", "@", "x" >>
        @@ PHONE :> << "5", "5", "5", "-", "2", "3", "4" >>) >>

\* worker.py:52-83: the first two rows of the table the worker creates itself:
\* customer_id, email, phone and created_at, which is filled by its DEFAULT NOW()
\* (the other columns are left out)
DemoCustomers ==
    [i \in 1..Len(ExistingCustomers) |-> ExistingCustomers[i] @@ CREATED_AT :> Datetime]

\* json.dumps(attributes) raises TypeError: a datetime is not JSON serializable
JsonDumpsRaises(attributes) ==
    \E k \in DOMAIN attributes : attributes[k] = Datetime

\* worker.py:23-36: the active rules of the object type, ORDER BY rule_id
get_identity_rules(rls, object_type) ==
    LET rows == { r \in { rls[id] : id \in DOMAIN rls } :
                    r # NoRule /\ r.active /\ r.object_type = object_type }
    IN  IF rows = {} THEN <<>>
        ELSE CHOOSE q \in Orderings(rows) :
                \A i, j \in 1..Len(q) : i < j => StrLess(q[i].rule_id, q[j].rule_id)

\* worker.py:275-298: INSERT the default rule ON CONFLICT (rule_id) DO NOTHING
create_default_rule(rls) ==
    IF rls[DEFAULT_RULE_ID] # NoRule THEN rls
    ELSE [rls EXCEPT ![DEFAULT_RULE_ID] =
            [rule_id |-> DEFAULT_RULE_ID, object_type |-> CUSTOMER, source_system |-> DEMO,
             key_fields |-> << EMAIL, PHONE >>,
             normalization_rules |-> (EMAIL :> "lowercase" @@ PHONE :> "digits_only"),
             active |-> TRUE]]

workerFrame == <<pc, call, applied, computed, ret, overlap, prev, dirty, fn_in, fn_out,
                 source_dbs, scan_run, run_hist, job, candidates, scan_profile,
                 connections>>

\* worker.py:38-86: demo_customers is created with its sample rows if it is missing
ensure_demo_source_table(table) ==
    IF table = NoTable THEN DemoCustomers ELSE table

\* main.py:45 and worker.py:138-180: a run of the worker, with or without --dry-run:
\* the demo table is ensured, the rules are read, the default rule is created if
\* there is none, the first rule is taken and the source rows are read
worker_start(w, dry_run) ==
    /\ worker[w].pc = "idle"
    /\ LET found == get_identity_rules(rules, CUSTOMER)
           rls == IF found = <<>> THEN create_default_rule(rules) ELSE rules
           rule == get_identity_rules(rls, CUSTOMER)[1]
           table == ensure_demo_source_table(demo_customers)
       IN  /\ demo_customers' = table
           /\ rules' = rls
           /\ worker' = [worker EXCEPT ![w] =
                 [IdleWorker EXCEPT !.pc = "select",
                                    !.dry_run = dry_run,
                                    !.key_fields = rule.key_fields,
                                    !.normalization_rules = rule.normalization_rules,
                                    !.rows = table,
                                    !.idx = 1]]
    /\ UNCHANGED objects
    /\ UNCHANGED workerFrame

\* An exception in the row's try block: it is counted and logged, the loop goes on
\* (worker.py:259-265). If a statement failed, the transaction of the connection
\* stays aborted, since nothing rolls it back before the with block of
\* worker.py:180 ends.
row_failed(wk, statement_failed) ==
    [wk EXCEPT !.stats.errors = @ + 1, !.aborted = @ \/ statement_failed,
               !.idx = @ + 1, !.pc = "select"]

\* worker.py:180-216 and 254-257: the next row: golden_id is computed; a dry run
\* counts the row as created and goes on, otherwise the row of its source tuple is
\* looked up. In an aborted transaction the SELECT raises.
worker_select(w) ==
    /\ worker[w].pc = "select"
    /\ worker[w].idx <= Len(worker[w].rows)
    /\ LET wk == [worker[w] EXCEPT !.stats.processed = @ + 1]
           row == wk.rows[wk.idx]
           golden_id == compute_golden_id(row, wk.key_fields, wk.normalization_rules)
       IN  worker' = [worker EXCEPT ![w] =
             IF wk.dry_run
             THEN [wk EXCEPT !.golden_id = golden_id, !.stats.created = @ + 1,
                             !.idx = @ + 1]
             ELSE IF wk.aborted THEN row_failed(wk, TRUE)
             ELSE [wk EXCEPT
                     !.golden_id = golden_id,
                     !.existing = RowsFor(objects, DEMO, row[CUSTOMER_ID], CUSTOMER) # {},
                     !.pc = "write"]]
    /\ UNCHANGED <<rules, objects, demo_customers>>
    /\ UNCHANGED workerFrame

\* worker.py:218-229: UPDATE .. SET attributes, golden_id WHERE the source tuple
update_object(objs, golden_id, source_system, source_id, object_type, attributes) ==
    LET old == RowsFor(objs, source_system, source_id, object_type)
    IN  (objs \ old)
        \cup { [o EXCEPT !.attributes = attributes, !.golden_id = golden_id] : o \in old }

\* worker.py:218-254: the parameters of the statement are built, json.dumps of the
\* row's attributes among them; the row is updated if the SELECT found one, else
\* inserted with a plain INSERT, which raises on the unique constraint of the source
\* tuple if a row was committed since the SELECT; then the transaction is committed.
worker_write(w) ==
    /\ worker[w].pc = "write"
    /\ LET wk == worker[w]
           row == wk.rows[wk.idx]
           source_id == row[CUSTOMER_ID]
           present == RowsFor(objects, DEMO, source_id, CUSTOMER) # {}
       IN  IF JsonDumpsRaises(row)
           THEN /\ objects' = objects
                /\ worker' = [worker EXCEPT ![w] = row_failed(wk, FALSE)]
           ELSE IF wk.existing
           THEN /\ objects' = update_object(objects, wk.golden_id, DEMO, source_id,
                                            CUSTOMER, row)
                /\ worker' = [worker EXCEPT ![w] =
                      [wk EXCEPT !.stats.updated = @ + 1, !.idx = @ + 1, !.pc = "select"]]
           ELSE IF present
           THEN /\ objects' = objects
                /\ worker' = [worker EXCEPT ![w] = row_failed(wk, TRUE)]
           ELSE /\ objects' = objects
                              \cup {NewRow(wk.golden_id, DEMO, source_id, CUSTOMER, row)}
                /\ worker' = [worker EXCEPT ![w] =
                      [wk EXCEPT !.stats.created = @ + 1, !.idx = @ + 1, !.pc = "select"]]
    /\ UNCHANGED <<rules, demo_customers>>
    /\ UNCHANGED workerFrame

\* worker.py:267-273: the rows are through, the stats are returned
worker_return(w) ==
    /\ worker[w].pc = "select"
    /\ worker[w].idx > Len(worker[w].rows)
    /\ worker' = [worker EXCEPT ![w].pc = "done"]
    /\ UNCHANGED <<rules, objects, demo_customers>>
    /\ UNCHANGED workerFrame

\* identity_worker/main.py: the process ends; the worker may be run again
worker_exit(w) ==
    /\ worker[w].pc = "done"
    /\ worker' = [worker EXCEPT ![w] = IdleWorker]
    /\ UNCHANGED <<rules, objects, demo_customers>>
    /\ UNCHANGED workerFrame

-----------------------------------------------------------------------------
(* The connections of IdentityMatcher, Scanner and IdentityWorker *)

MaxOperations == 12

connFrame == <<rules, objects, pc, call, applied, computed, ret, overlap, prev, dirty,
               fn_in, fn_out, source_dbs, scan_run, run_hist, job, candidates,
               scan_profile, worker, demo_customers>>

\* matcher.py:19-21, worker.py:19-21, scanner.py:22-25: get_connection returns a new
\* psycopg2.connect(..); the operation uses it as `with .. as conn:`, which ends the
\* transaction when the block is left, by return or by exception, and does not
\* close the connection; no operation calls close(). When the operation has
\* returned nothing refers to the connection any more: the runtime closes it when it
\* finalises the object, at once or at some later collection.
own_connection_operation(class) ==
    /\ connections.operations < MaxOperations
    /\ \E closed_at_once \in BOOLEAN :
         connections' = [connections EXCEPT
             !.operations = @ + 1,
             !.unclosed = IF closed_at_once THEN @ ELSE @ + 1]
    /\ UNCHANGED connFrame

\* The classes whose operations open a connection of their own: IdentityMatcher
\* (get_active_rules, match_and_upsert), IdentityWorker (ensure_demo_source_table,
\* get_identity_rules, query_source_data, process_customers, _create_default_rule)
\* and Scanner on a source database (enumerate_tables, profile_table)
ConnectingClasses == {"IdentityMatcher", "IdentityWorker", "Scanner"}

\* scanner.py:27-31: an operation of Scanner on the edna database
\* (get_source_databases, create_scan_run, update_scan_run_status,
\* persist_scan_profiles, update_scan_status, persist_candidates) takes the cached
\* connection, opened if there is none yet, and leaves it open
scanner_edna_operation ==
    /\ connections.operations < MaxOperations
    /\ connections' = [connections EXCEPT !.operations = @ + 1, !.edna_conn = TRUE]
    /\ UNCHANGED connFrame

\* The runtime finalises a connection object nothing refers to: it is closed
finalise_connection ==
    /\ connections.unclosed > 0
    /\ connections' = [connections EXCEPT !.unclosed = @ - 1]
    /\ UNCHANGED connFrame

\* The connections that are open while no operation is running
OpenConnections ==
    connections.unclosed + (IF connections.edna_conn THEN 1 ELSE 0)

-----------------------------------------------------------------------------
(* The Scan Run Tracker and the scanning pass *)

\* Rows the scan_run table may hold in the model
MaxScanRuns == 2

\* Calls of update_scan_run_status a caller other than the pass makes on one run
MaxDirectUpdates == 2

SourceDbIds == {"db1", "db2"}

NoSource == [absent |-> TRUE]
NoRun == 0

\* scanner.py:356
FallbackSource == "demo-db"

\* The values of scan_run.status (spec section 3; the column's own constraint is in
\* the migrations)
ScanStatuses == {"PENDING", "SUCCESS", "FAILED"}

\* fnmatch.fnmatchcase(name, pat) for patterns of literals, '*' and '?' (no '[')
RECURSIVE fnmatchcase(_, _)
fnmatchcase(name, pat) ==
    IF pat = <<>> THEN name = <<>>
    ELSE IF Head(pat) = "*"
         THEN \/ fnmatchcase(name, Tail(pat))
              \/ name # <<>> /\ fnmatchcase(Tail(name), pat)
    ELSE IF name = <<>> THEN FALSE
    ELSE /\ Head(pat) = "?" \/ Head(pat) = Head(name)
         /\ fnmatchcase(Tail(name), Tail(pat))

\* pattern.replace('%', '*')
PercentToStar(pattern) == [i \in 1..Len(pattern) |-> IF pattern[i] = "%" THEN "*" ELSE pattern[i]]

\* Mutant: the table name is matched as it is spelled (table_name.lower() dropped).
is_table_blacklisted_case_sensitive(table_name, blacklist) ==
    \E i \in 1..Len(blacklist) :
        fnmatchcase(table_name, Lower(PercentToStar(blacklist[i])))

\* scanner.py:76-86
is_table_blacklisted(table_name, blacklist) ==
    IF blacklist = <<>> THEN FALSE
    ELSE \E i \in 1..Len(blacklist) :
            fnmatchcase(Lower(table_name), Lower(PercentToStar(blacklist[i])))

\* scanner.py:88-108: the base tables of the schema, those matching a non-empty
\* blacklist left out
enumerate_tables(tables, blacklist) ==
    IF blacklist = <<>> THEN tables
    ELSE LET NotListed(t) == ~is_table_blacklisted(t.table_name, blacklist)
         IN  SelectSeq(tables, NotListed)

PUBLIC == << "p", "u", "b", "l", "i", "c" >>
CUSTOMERS == << "c", "u", "s", "t", "o", "m", "e", "r", "s" >>
EDNA_OBJECTS == << "e", "d", "n", "a", "_", "o", "b", "j", "e", "c", "t", "s" >>
EDNA_LOG == << "E", "d", "n", "a", "_", "L", "o", "g" >>
TBL_ORDERS == << "t", "b", "l", "_", "o", "r", "d", "e", "r", "s" >>
EDNA_PATTERN == << "e", "d", "n", "a", "_", "%" >>
TBL_PATTERN == << "T", "B", "L", "_", "%" >>

\* SQL NULL / Python None where a number may stand, and a number that is there
Null == [null |-> TRUE]
Number(n) == [int |-> n]

\* A first row (sample) as a dict, and no sample
Row(id) == (<< "i", "d" >> :> id)
NoSample == [none |-> TRUE]

\* One column of a table as the source database holds it: its
\* information_schema.columns row and the counts its statistics query returns
Column(column_name, data_type, distinct_count, null_count) ==
    [column_name |-> column_name, data_type |-> data_type,
     distinct_count |-> distinct_count, null_count |-> null_count]

\* One base table of a source database: its information_schema.tables row, its
\* COUNT(*), its columns in ordinal position and its first row
Table(table_name, row_count, columns, sample) ==
    [table_schema |-> PUBLIC, table_name |-> table_name, row_count |-> row_count,
     columns |-> columns, sample |-> sample]

\* The base tables of schema public in the edna database itself, ordered by name
\* (scanner.py:92-98): the fallback pass scans them
PublicTables ==
    << Table(CUSTOMERS, 2, << Column("id", "integer", 2, 0),
                              Column("email", "text", 1, 1) >>, Row(<< "1" >>)),
       Table(EDNA_OBJECTS, 1, << Column("attributes", "jsonb", 1, 0) >>, Row(<< "7" >>)) >>

SALES == << "s", "a", "l", "e", "s" >>
INVOICES == << "i", "n", "v", "o", "i", "c", "e", "s" >>

\* The base tables of the registered source databases, by schema and name; the
\* second source has a table in a second schema
SourceTables(source_db_id) ==
    IF source_db_id = "db1"
    THEN << Table(EDNA_LOG, 1, << Column("id", "integer", 1, 0) >>, Row(<< "3" >>)),
            Table(CUSTOMERS, 2, << Column("id", "integer", 2, 0) >>, Row(<< "1" >>)),
            Table(TBL_ORDERS, 0, << >>, NoSample) >>
    ELSE << Table(CUSTOMERS, 1, << Column("id", "integer", 1, 0) >>, Row(<< "5" >>)),
            [Table(INVOICES, 1, << Column("id", "integer", 1, 0) >>, Row(<< "9" >>))
                EXCEPT !.table_schema = SALES] >>

\* scanner.py:414-425: SELECT DISTINCT table_schema .. ORDER BY table_schema, on
\* tables listed by schema
RECURSIVE discover_schemas(_)
discover_schemas(tables) ==
    IF tables = <<>> THEN <<>>
    ELSE LET earlier == discover_schemas(SubSeq(tables, 1, Len(tables) - 1))
             schema == tables[Len(tables)].table_schema
         IN  IF \E i \in 1..Len(earlier) : earlier[i] = schema THEN earlier
             ELSE Append(earlier, schema)

\* The tables of the first k schemas
TablesOfSchemas(tables, schemas, k) ==
    LET Earlier(t) == \E i \in 1..k : schemas[i] = t.table_schema
    IN  SelectSeq(tables, Earlier)

\* Mutant: an empty table gets the rate 0 instead of None.
NullRate_zero_when_empty(null_count, row_count) ==
    IF row_count > 0 THEN [num |-> null_count, den |-> row_count] ELSE [num |-> 0, den |-> 1]

\* scanner.py:148: float(null_count) / float(row_count), kept as the fraction
NullRate(null_count, row_count) ==
    IF row_count > 0 THEN [num |-> null_count, den |-> row_count] ELSE Null

\* scanner.py:133-164: the column profiles of a table, its columns taken in order on
\* one cursor of one transaction. A statistics query that fails is caught, but it
\* leaves the transaction aborted: PostgreSQL then refuses every later statement of
\* the transaction, so every later statistics query fails as well.
RECURSIVE column_profiles(_, _, _, _)
column_profiles(columns, row_count, bad_columns, aborted) ==
    IF columns = <<>> THEN <<>>
    ELSE LET col == Head(columns)
             fails == aborted \/ col.column_name \in bad_columns
         IN  << [column_name |-> col.column_name,
                 data_type |-> col.data_type,
                 row_count |-> row_count,
                 distinct_count |-> IF fails THEN Null ELSE Number(col.distinct_count),
                 null_count |-> IF fails THEN Null ELSE Number(col.null_count),
                 null_rate |-> IF fails THEN Null
                               ELSE NullRate(col.null_count, row_count)] >>
             \o column_profiles(Tail(columns), row_count, bad_columns, fails)

\* information_schema.columns rows (scanner.py:119-129)
ColumnInfo(columns) ==
    [i \in 1..Len(columns) |->
        [column_name |-> columns[i].column_name, data_type |-> columns[i].data_type]]

\* scanner.py:110-186: the profile of one table whose row count and column list were
\* read; bad_columns are the columns whose statistics query fails
profile_table(t, bad_columns) ==
    LET aborted == \E i \in 1..Len(t.columns) : t.columns[i].column_name \in bad_columns
    IN  [schema |-> t.table_schema,
         table |-> t.table_name,
         row_count |-> t.row_count,
         column_count |-> Len(t.columns),
         columns |-> ColumnInfo(t.columns),
         column_profiles |-> column_profiles(t.columns, t.row_count, bad_columns, FALSE),
         sample |-> IF t.row_count > 0 /\ ~aborted THEN t.sample ELSE NoSample]

\* scanner.py:207-208: the source's id is added to the profile if one was given
WithSource(profile, source_db_id) ==
    IF source_db_id = "" THEN profile ELSE [source_db_id |-> source_db_id] @@ profile

\* Mutant: the first table whose profile_table raises ends the loop.
RECURSIVE profile_until_failure(_, _, _)
profile_until_failure(tables, source_db_id, failing) ==
    IF tables = <<>> \/ Head(tables).table_name \in failing THEN <<>>
    ELSE << WithSource(profile_table(Head(tables), {}), source_db_id) >>
         \o profile_until_failure(Tail(tables), source_db_id, failing)

\* scanner.py:199-220: the enumerated tables are profiled in order; a table whose
\* profile_table raises (its name is in failing) is logged and left out
RECURSIVE profile_each(_, _, _)
profile_each(tables, source_db_id, failing) ==
    IF tables = <<>> THEN <<>>
    ELSE (IF Head(tables).table_name \in failing THEN <<>>
          ELSE << WithSource(profile_table(Head(tables), {}), source_db_id) >>)
         \o profile_each(Tail(tables), source_db_id, failing)

\* scanner.py:188-220
scan_all_tables(tables, blacklist, source_db_id, failing) ==
    profile_each(enumerate_tables(tables, blacklist), source_db_id, failing)

\* str.startswith, str.endswith
StartsWith(s, prefix) == Len(s) >= Len(prefix) /\ SubSeq(s, 1, Len(prefix)) = prefix
EndsWith(s, suffix) ==
    Len(s) >= Len(suffix) /\ SubSeq(s, Len(s) - Len(suffix) + 1, Len(s)) = suffix

\* re.sub(r'^(tbl_|tb_|t_|table_)', '', name): the first alternative that matches
StripTablePrefix(name) ==
    LET prefixes == << << "t", "b", "l", "_" >>, << "t", "b", "_" >>, << "t", "_" >>, << "t", "a", "b", "l", "e", "_" >> >>
        hit == { i \in 1..Len(prefixes) : StartsWith(name, prefixes[i]) }
    IN  IF hit = {} THEN name
        ELSE LET i == CHOOSE j \in hit : \A k \in hit : j <= k
             IN  SubSeq(name, Len(prefixes[i]) + 1, Len(name))

\* re.sub(r'(_tbl|_table|_tb)$', '', name): the leftmost match, that is the longest
\* suffix that matches (no '\n' in the names of the model)
StripTableSuffix(name) ==
    LET suffixes == << << "_", "t", "b", "l" >>, << "_", "t", "a", "b", "l", "e" >>, << "_", "t", "b" >> >>
        hit == { i \in 1..Len(suffixes) : EndsWith(name, suffixes[i]) }
    IN  IF hit = {} THEN name
        ELSE LET i == CHOOSE j \in hit : \A k \in hit : Len(suffixes[j]) >= Len(suffixes[k])
             IN  SubSeq(name, 1, Len(name) - Len(suffixes[i]))

\* scanner.py:523-547: the keys of type_mappings that map to themselves
SingularTypes ==
    { << "c", "u", "s", "t", "o", "m", "e", "r" >>,
      << "u", "s", "e", "r" >>,
      << "a", "c", "c", "o", "u", "n", "t" >>,
      << "o", "r", "d", "e", "r" >>,
      << "p", "r", "o", "d", "u", "c", "t" >>,
      << "i", "n", "v", "o", "i", "c", "e" >>,
      << "c", "o", "n", "t", "a", "c", "t" >>,
      << "p", "e", "r", "s", "o", "n" >>,
      << "e", "m", "p", "l", "o", "y", "e", "e" >>,
      << "v", "e", "n", "d", "o", "r" >>,
      << "s", "u", "p", "p", "l", "i", "e", "r" >> }

PEOPLE == << "p", "e", "o", "p", "l", "e" >>
PERSON == << "p", "e", "r", "s", "o", "n" >>
UNKNOWN == << "u", "n", "k", "n", "o", "w", "n" >>

\* scanner.py:518-520: a final 's' is removed from a name longer than one character
Singular(name) ==
    IF Len(name) > 1 /\ name[Len(name)] = "s" THEN SubSeq(name, 1, Len(name) - 1)
    ELSE name

\* scanner.py:523-553: the type the cleaned name maps to, or the cleaned name itself
MappedType(name) ==
    IF name \in SingularTypes THEN name
    ELSE IF \E t \in SingularTypes : name = t \o << "s" >>
         THEN SubSeq(name, 1, Len(name) - 1)
    ELSE IF name = PEOPLE THEN PERSON
    ELSE IF name = <<>> THEN UNKNOWN
    ELSE name

\* scanner.py:508-553: the steps of the function one after the other, each applied
\* to the value of the one before
guess_object_type(table_name) ==
    LET types == { MappedType(name) :
                     name \in { Singular(cleaned) :
                       cleaned \in { StripTableSuffix(stripped) :
                         stripped \in { StripTablePrefix(lowered) :
                           lowered \in { Lower(table_name) } } } } }
    IN  CHOOSE type \in types : TRUE

SCANNER == << "s", "c", "a", "n", "n", "e", "r" >>
TEMP_PREFIX == << "t", "e", "m", "p", ":" >>

\* scanner.py:576-583: INSERT INTO edna_object_candidates .. ON CONFLICT (schema,
\* table_name) DO UPDATE SET guess_type, row_count
upsert_candidate(cands, schema, table_name, guess_type, row_count) ==
    { c \in cands : ~(c.schema = schema /\ c.table_name = table_name) }
    \cup { [schema |-> schema, table_name |-> table_name, guess_type |-> guess_type,
            row_count |-> row_count] }

\* scanner.py:596-630: the demo object of a profile that has a sample, written with
\* the same INSERT .. ON CONFLICT .. DO UPDATE SET attributes as matcher.py:134-141
demo_object(objs, profile, guess_type) ==
    IF profile.sample # NoSample /\ profile.row_count > 0
    THEN LET source_id == TEMP_PREFIX \o profile.schema \o << "." >> \o profile.table
             golden_id == sha1_hexdigest(SCANNER \o << "|" >> \o source_id \o << "|" >>
                                         \o guess_type)
         IN  upsert_object(objs, golden_id, SCANNER, source_id, guess_type, profile.sample)
    ELSE objs

\* The tables of a list of profiles
ProfiledTableNames(profiles) == { profiles[i].table : i \in 1..Len(profiles) }

\* scanner.py:565-641: every profile in turn on one cursor of one transaction.
\* bad_candidates and bad_objects are the tables whose candidate INSERT and whose
\* demo object INSERT fail. A failure is caught and the loop goes on (continue), but
\* the failed statement leaves the transaction aborted: PostgreSQL refuses every
\* later statement of it, and nothing rolls back to a savepoint.
RECURSIVE stage_candidates(_, _, _, _, _, _)
stage_candidates(cands, objs, profiles, bad_candidates, bad_objects, aborted) ==
    IF profiles = <<>> THEN [candidates |-> cands, objects |-> objs, aborted |-> aborted]
    ELSE \* the candidate row
         IF aborted \/ Head(profiles).table \in bad_candidates
         THEN stage_candidates(cands, objs, Tail(profiles), bad_candidates, bad_objects,
                               TRUE)
         \* the demo object, if the profile has a sample
         ELSE IF /\ Head(profiles).sample # NoSample
                 /\ Head(profiles).row_count > 0
                 /\ Head(profiles).table \in bad_objects
         THEN stage_candidates(cands, objs, Tail(profiles), bad_candidates, bad_objects,
                               TRUE)
         ELSE CHOOSE staged \in
                  { stage_candidates(
                        upsert_candidate(cands, Head(profiles).schema,
                                         Head(profiles).table, guess_type,
                                         Head(profiles).row_count),
                        demo_object(objs, Head(profiles), guess_type),
                        Tail(profiles), bad_candidates, bad_objects, FALSE) :
                      guess_type \in { guess_object_type(Head(profiles).table) } } : TRUE

\* scanner.py:555-645: persist_candidates; the commit at the end (scanner.py:643)
\* ends an aborted transaction by rolling it back, the statements that had
\* succeeded included, and raises nothing
persist_candidates(cands, objs, profiles, bad_candidates, bad_objects) ==
    CHOOSE stored \in
        { IF staged.aborted THEN [candidates |-> cands, objects |-> objs]
          ELSE [candidates |-> staged.candidates, objects |-> staged.objects] :
            staged \in { stage_candidates(cands, objs, profiles, bad_candidates,
                                          bad_objects, FALSE) } } : TRUE

\* scanner.py:321: the %s placeholders of the scan_profile_column INSERT
ColumnInsertPlaceholders == 8

\* scanner.py:330-340: the parameters passed with that INSERT
ColumnInsertParameters == 9

\* scanner.py:275
ProfileTableName(profile) == profile.schema \o << "." >> \o profile.table

\* scanner.py:288-304: INSERT INTO scan_profile_table .. ON CONFLICT (scan_run_id,
\* table_name) DO UPDATE SET row_count, sample_hash
upsert_profile_table(rows, scan_run_id, source_system, profile) ==
    LET table_name == ProfileTableName(profile)
        old == { r \in rows : r.scan_run_id = scan_run_id /\ r.table_name = table_name }
        new == [scan_run_id |-> scan_run_id, source_system |-> source_system,
                table_name |-> table_name, row_count |-> profile.row_count,
                sample_hash |-> IF profile.sample = NoSample THEN NoSample
                                ELSE sha1_hexdigest(profile.sample)]
    IN  IF old = {} THEN rows \cup {new}
        ELSE (rows \ old) \cup { [o EXCEPT !.row_count = new.row_count,
                                            !.sample_hash = new.sample_hash] : o \in old }

\* scanner.py:308-341: INSERT INTO scan_profile_column .. ON CONFLICT (scan_run_id,
\* table_name, column_name) DO UPDATE SET the statistics
upsert_profile_column(rows, scan_run_id, source_system, table_name, col_profile) ==
    LET old == { r \in rows : /\ r.scan_run_id = scan_run_id
                              /\ r.table_name = table_name
                              /\ r.column_name = col_profile.column_name }
        new == [scan_run_id |-> scan_run_id, source_system |-> source_system,
                table_name |-> table_name] @@ col_profile
    IN  IF old = {} THEN rows \cup {new}
        ELSE (rows \ old) \cup
             { [o EXCEPT !.data_type = new.data_type, !.row_count = new.row_count,
                         !.distinct_count = new.distinct_count,
                         !.null_count = new.null_count,
                         !.null_rate = new.null_rate] : o \in old }

RECURSIVE upsert_profile_columns(_, _, _, _, _)
upsert_profile_columns(rows, scan_run_id, source_system, table_name, col_profiles) ==
    IF col_profiles = <<>> THEN rows
    ELSE upsert_profile_columns(
             upsert_profile_column(rows, scan_run_id, source_system, table_name,
                                   Head(col_profiles)),
             scan_run_id, source_system, table_name, Tail(col_profiles))

\* cursor.execute(query, parameters) raises TypeError ("not all arguments converted")
\* when the query holds fewer placeholders than parameters are passed
ExecuteRaises(placeholders, parameters) == placeholders # parameters

\* scanner.py:274-341: the rows after the loop over the profiles, or "raised" at the
\* first column INSERT that raises
RECURSIVE persist_profile_rows(_, _, _, _)
persist_profile_rows(store, scan_run_id, source_system, profiles) ==
    IF profiles = <<>> THEN [raised |-> FALSE, store |-> store]
    ELSE LET profile == Head(profiles)
             tables == upsert_profile_table(store.tables, scan_run_id, source_system,
                                            profile)
         IN  IF /\ profile.column_profiles # <<>>
                /\ ExecuteRaises(ColumnInsertPlaceholders, ColumnInsertParameters)
             THEN [raised |-> TRUE, store |-> store]
             ELSE persist_profile_rows(
                      [tables |-> tables,
                       columns |-> upsert_profile_columns(
                                       store.columns, scan_run_id, source_system,
                                       ProfileTableName(profile), profile.column_profiles)],
                      scan_run_id, source_system, Tail(profiles))

\* scanner.py:262-347: one transaction: committed when the loop ends, rolled back
\* (nothing stored) when a statement raises
persist_scan_profiles(store, scan_run_id, source_system, profiles) ==
    LET done == persist_profile_rows(store, scan_run_id, source_system, profiles)
    IN  IF done.raised THEN [raised |-> TRUE, store |-> store] ELSE done

\* scanner.py:426-430: "edna_%" is appended to the source's blacklist if missing
with_edna_blacklist(table_blacklist) ==
    IF \E i \in 1..Len(table_blacklist) : table_blacklist[i] = EDNA_PATTERN
    THEN table_blacklist
    ELSE Append(table_blacklist, EDNA_PATTERN)

RECURSIVE SumRowCounts(_)
SumRowCounts(profiles) ==
    IF profiles = <<>> THEN 0 ELSE Head(profiles).row_count + SumRowCounts(Tail(profiles))

\* scanner.py:371-374
success_metrics(profiles) ==
    [total_tables |-> Len(profiles), total_rows |-> SumRowCounts(profiles)]

\* scanner.py:389
failure_metrics == [error |-> "str(e)"]

EmptyMetrics == [empty |-> TRUE]

\* The row of one source as the pass reads it (dict(row), scanner.py:53)
SourceSnapshot(source_db_id) ==
    [source_db_id |-> source_db_id,
     table_blacklist |-> source_dbs[source_db_id].table_blacklist]

\* scanner.py:33-53: SELECT .. WHERE active = TRUE ORDER BY source_db_name (the
\* name of a source is its id in the model)
get_source_databases ==
    LET act == { d \in SourceDbIds : source_dbs[d] # NoSource /\ source_dbs[d].active }
    IN  IF act = {} THEN <<>>
        ELSE IF act = SourceDbIds THEN << SourceSnapshot("db1"), SourceSnapshot("db2") >>
        ELSE << SourceSnapshot(CHOOSE d \in act : TRUE) >>

\* The locals of scan_source_databases: results as scanner.py:394-399 builds it,
\* total_profiles, and the fallback pass's profiles; outcomes is history: per source
\* scanned, the tables enumerated and the names of those that failed to profile
IdleJob ==
    [pc |-> "idle", source_dbs |-> <<>>, idx |-> 0, scan_run_id |-> NoRun,
     profiles |-> <<>>, raised |-> FALSE, scanned |-> 0, failed |-> 0,
     total_tables |-> 0, database_results |-> <<>>, total_profiles |-> <<>>,
     outcomes |-> <<>>]

ScanInit ==
    /\ source_dbs = [d \in SourceDbIds |-> NoSource]
    /\ scan_run = <<>>
    /\ run_hist = <<>>
    /\ job = IdleJob
    /\ candidates = {}
    /\ scan_profile = [tables |-> {}, columns |-> {}]

\* scanner.py:227-234 and api_gateway/main.py:137-144:
\* INSERT INTO scan_run (source_system, status, metrics_json) VALUES (.., 'PENDING', ..)
insert_scan_run(runs, source_system, metrics) ==
    Append(runs, [source_system |-> source_system, status |-> "PENDING",
                  metrics |-> metrics, ended |-> FALSE])

\* scanner.py:249-259: UPDATE scan_run SET status, metrics_json, ended_at = NOW()
\* WHERE scan_run_id = ..: no condition on the row's present status
update_scan_run(runs, scan_run_id, status, metrics) ==
    [i \in 1..Len(runs) |->
        IF i = scan_run_id
        THEN [runs[i] EXCEPT !.status = status, !.metrics = metrics, !.ended = TRUE]
        ELSE runs[i]]

NoteUpdate(scan_run_id) ==
    run_hist' = [i \in 1..Len(run_hist) |->
                    IF i = scan_run_id
                    THEN [run_hist[i] EXCEPT !.updates = @ + 1]
                    ELSE run_hist[i]]

\* api_gateway/main.py:125-147: POST /scan-runs
api_create_scan_run(payload_source_system) ==
    /\ Len(scan_run) < MaxScanRuns
    /\ scan_run' = insert_scan_run(scan_run,
                       IF payload_source_system = "" THEN FallbackSource
                       ELSE payload_source_system,
                       EmptyMetrics)
    /\ run_hist' = Append(run_hist, [origin |-> "api", updates |-> 0])
    /\ UNCHANGED <<source_dbs, job>>
    /\ UNCHANGED <<engineVars, fnVars, stagingVars, hostVars>>

\* None and "" are false in Python
Truthy(x) == x \notin {"None", ""}

\* api_gateway/main.py:849-853: password_encrypted or password or
\* metadata.get("password", ""): the first that is true, else the last
supplied_password(db_config) ==
    IF Truthy(db_config.password_encrypted) THEN db_config.password_encrypted
    ELSE IF Truthy(db_config.password) THEN db_config.password
    ELSE IF db_config.metadata_password = "absent" THEN ""
    ELSE db_config.metadata_password

\* Mutant: the stored password is not looked up when none is supplied.
password_to_store_supplied_only(dbs, db_config) ==
    supplied_password(db_config)

\* api_gateway/main.py:849-867: the password supplied, or else the stored one if
\* there is a row with a password that is true
password_to_store(dbs, db_config) ==
    LET password == supplied_password(db_config)
        existing == dbs[db_config.source_db_id]
    IN  IF ~Truthy(password) /\ existing # NoSource /\ Truthy(existing.password_encrypted)
        THEN existing.password_encrypted
        ELSE password

\* api_gateway/main.py:870-904: INSERT .. ON CONFLICT (source_db_id) DO UPDATE; the
\* scan status columns are not in the SET list. A None password is stored as NULL
\* ("None"); where the column does not accept NULL the statement fails and the
\* table stays as it was, which is a step that changes nothing.
upsert_source_database(dbs, db_config) ==
    [dbs EXCEPT ![db_config.source_db_id] =
        LET password == password_to_store(dbs, db_config)
        IN  IF dbs[db_config.source_db_id] = NoSource
            THEN [active |-> db_config.active,
                  table_blacklist |-> db_config.table_blacklist,
                  password_encrypted |-> password,
                  last_scan_status |-> "None", last_scan_error |-> "None"]
            ELSE [dbs[db_config.source_db_id] EXCEPT
                     !.active = db_config.active,
                     !.table_blacklist = db_config.table_blacklist,
                     !.password_encrypted = password]]

\* api_gateway/main.py:832-910: POST /source-databases
create_source_database(db_config) ==
    /\ source_dbs' = upsert_source_database(source_dbs, db_config)
    /\ UNCHANGED <<scan_run, run_hist, job>>
    /\ UNCHANGED <<engineVars, fnVars, stagingVars, hostVars>>

\* api_gateway/main.py:913-934: DELETE /source-databases/{source_db_id}
delete_source_database(source_db_id) ==
    /\ source_dbs[source_db_id] # NoSource
    /\ source_dbs' = [source_dbs EXCEPT ![source_db_id] = NoSource]
    /\ UNCHANGED <<scan_run, run_hist, job>>
    /\ UNCHANGED <<engineVars, fnVars, stagingVars, hostVars>>

\* scanner.py:222-237: Scanner.create_scan_run called on its own
create_scan_run(source_system) ==
    /\ Len(scan_run) < MaxScanRuns
    /\ scan_run' = insert_scan_run(scan_run, source_system, EmptyMetrics)
    /\ run_hist' = Append(run_hist, [origin |-> "caller", updates |-> 0])
    /\ UNCHANGED <<source_dbs, job>>
    /\ UNCHANGED <<engineVars, fnVars, stagingVars, hostVars>>

\* scanner.py:239-260: Scanner.update_scan_run_status called on its own
update_scan_run_status(scan_run_id, status, metrics) ==
    /\ scan_run_id \in 1..Len(scan_run)
    /\ run_hist[scan_run_id].updates < MaxDirectUpdates
    /\ scan_run' = update_scan_run(scan_run, scan_run_id, status, metrics)
    /\ NoteUpdate(scan_run_id)
    /\ UNCHANGED <<source_dbs, job>>
    /\ UNCHANGED <<engineVars, fnVars, stagingVars, hostVars>>

\* scanner.py:351-353: scan_source_databases reads the active sources and branches
scan_begin ==
    /\ job.pc = "idle"
    /\ LET dbs == get_source_databases
       IN  job' = [IdleJob EXCEPT !.source_dbs = dbs,
                                  !.idx = 1,
                                  !.pc = IF dbs = <<>> THEN "fallback_create" ELSE "sources"]
    /\ UNCHANGED <<source_dbs, scan_run, run_hist>>
    /\ UNCHANGED <<engineVars, fnVars, stagingVars, hostVars>>

\* scanner.py:356-357: the fallback pass opens its run against "demo-db"
fallback_create_run ==
    /\ job.pc = "fallback_create"
    /\ Len(scan_run) < MaxScanRuns
    /\ scan_run' = insert_scan_run(scan_run, FallbackSource, EmptyMetrics)
    /\ run_hist' = Append(run_hist, [origin |-> "scanner", updates |-> 0])
    /\ job' = [job EXCEPT !.scan_run_id = Len(scan_run) + 1, !.pc = "fallback_scan"]
    /\ UNCHANGED source_dbs
    /\ UNCHANGED <<engineVars, fnVars, stagingVars, hostVars>>

TableNames(tables) == { tables[i].table_name : i \in 1..Len(tables) }

\* The names of the tables in the order they were enumerated
NamesOf(tables) == [i \in 1..Len(tables) |-> tables[i].table_name]

\* scanner.py:359-369: scan_all_tables(schema="public") with no blacklist, then, if
\* there are profiles, persist_candidates and persist_scan_profiles. Enumerating the
\* tables may raise (connection error); failing are the tables whose profile_table
\* raises, drawn from may_fail.
fallback_scan(may_fail) ==
    /\ job.pc = "fallback_scan"
    /\ \/ /\ job' = [job EXCEPT !.raised = TRUE, !.pc = "fallback_finish"]
          /\ UNCHANGED <<objects, candidates, scan_profile>>
       \/ \E failing \in SUBSET (TableNames(PublicTables) \cap may_fail) :
            LET profiles == scan_all_tables(PublicTables, <<>>, "", failing)
                staged == persist_candidates(candidates, objects, profiles, {}, {})
                stored == persist_scan_profiles(scan_profile, job.scan_run_id,
                                                FallbackSource, profiles)
            IN  /\ candidates' = staged.candidates
                /\ objects' = staged.objects
                /\ scan_profile' = stored.store
                /\ job' = [job EXCEPT !.profiles = profiles,
                                      !.raised = stored.raised,
                                      !.outcomes = << [enumerated |-> NamesOf(PublicTables),
                                                       failing |-> failing,
                                                       discarded |-> <<>>] >>,
                                      !.pc = "fallback_finish"]
    /\ UNCHANGED <<source_dbs, scan_run, run_hist>>
    /\ UNCHANGED <<matcherVars, fnVars, hostVars>>

\* scanner.py:371-391: the run is closed, SUCCESS with the metrics or, in the except
\* branch, FAILED with the error (re-raised)
fallback_finish ==
    /\ job.pc = "fallback_finish"
    /\ scan_run' =
         IF job.raised
         THEN update_scan_run(scan_run, job.scan_run_id, "FAILED", failure_metrics)
         ELSE update_scan_run(scan_run, job.scan_run_id, "SUCCESS",
                              success_metrics(job.profiles))
    /\ NoteUpdate(job.scan_run_id)
    /\ job' = [job EXCEPT !.pc = "done"]
    /\ UNCHANGED source_dbs
    /\ UNCHANGED <<engineVars, fnVars, stagingVars, hostVars>>

\* Mutant: the status is written, the error column is left as it was.
update_scan_status_keeping_error(dbs, source_db_id, status, error) ==
    [dbs EXCEPT ![source_db_id] =
        IF dbs[source_db_id] = NoSource THEN NoSource
        ELSE [dbs[source_db_id] EXCEPT !.last_scan_status = status]]

\* scanner.py:495-503: UPDATE edna_source_databases SET last_scan_status,
\* last_scan_error WHERE source_db_id = ..
update_scan_status(dbs, source_db_id, status, error) ==
    [dbs EXCEPT ![source_db_id] =
        IF dbs[source_db_id] = NoSource THEN NoSource
        ELSE [dbs[source_db_id] EXCEPT !.last_scan_status = status,
                                       !.last_scan_error = error]]

\* scanner.py:443-456: the source's profiles are added to total_profiles, the source
\* is counted as scanned and its result is appended
source_succeeded(jb, source_db_id, db_profiles, enumerated, failing) ==
    [jb EXCEPT
        !.idx = @ + 1,
        !.scanned = @ + 1,
        !.total_tables = @ + Len(db_profiles),
        !.total_profiles = @ \o db_profiles,
        !.database_results = Append(@,
            [source_db_id |-> source_db_id, status |-> "success",
             tables_scanned |-> Len(db_profiles)]),
        !.outcomes = Append(@, [enumerated |-> enumerated, failing |-> failing,
                                discarded |-> <<>>])]

\* The schema and table of each profile of a list
ProfileKeys(profiles) ==
    [i \in 1..Len(profiles) |-> [schema |-> profiles[i].schema, table |-> profiles[i].table]]

\* Mutant: the failed source gets its result entry but is not counted.
source_failed_uncounted(jb, source_db_id, db_profiles) ==
    [jb EXCEPT
        !.idx = @ + 1,
        !.database_results = Append(@,
            [source_db_id |-> source_db_id, status |-> "failed", error |-> "str(e)"]),
        !.outcomes = Append(@, [enumerated |-> <<>>, failing |-> {},
                                discarded |-> ProfileKeys(db_profiles)])]

\* scanner.py:467-475: the source is counted as failed and its result, with the
\* error, is appended; db_profiles, the local list of the profiles of the schemas
\* scanned before the exception (scanner.py:433-441), is not used any more
source_failed(jb, source_db_id, db_profiles) ==
    [jb EXCEPT
        !.idx = @ + 1,
        !.failed = @ + 1,
        !.database_results = Append(@,
            [source_db_id |-> source_db_id, status |-> "failed", error |-> "str(e)"]),
        !.outcomes = Append(@, [enumerated |-> <<>>, failing |-> {},
                                discarded |-> ProfileKeys(db_profiles)])]

\* scanner.py:401-475: one registered source is scanned. The try profiles the
\* tables that are not blacklisted, schema by schema; failing are those whose
\* profile_table raises, drawn from may_fail. Or the try raises: before a table is
\* profiled (connection or schema discovery error), or when enumerate_tables raises
\* on a schema after k schemas were scanned.
scan_source(may_fail) ==
    /\ job.pc = "sources"
    /\ job.idx <= Len(job.source_dbs)
    /\ LET source_db == job.source_dbs[job.idx]
           source_db_id == source_db.source_db_id
           blacklist == with_edna_blacklist(source_db.table_blacklist)
           tables == enumerate_tables(SourceTables(source_db_id), blacklist)
           schemas == discover_schemas(SourceTables(source_db_id))
       IN  \/ \E failing \in SUBSET (TableNames(tables) \cap may_fail) :
                LET db_profiles == scan_all_tables(SourceTables(source_db_id), blacklist,
                                                   source_db_id, failing)
                IN  /\ source_dbs' = update_scan_status(source_dbs, source_db_id,
                                                        "success", "None")
                    /\ job' = source_succeeded(job, source_db_id, db_profiles,
                                                NamesOf(tables), failing)
           \/ \E k \in 0..Len(schemas) :
                /\ k = 0 \/ k < Len(schemas)
                /\ source_dbs' = update_scan_status(source_dbs, source_db_id,
                                                    "failed", "str(e)")
                /\ job' = source_failed(job, source_db_id,
                       scan_all_tables(TablesOfSchemas(SourceTables(source_db_id),
                                                       schemas, k),
                                       blacklist, source_db_id, {}))
    /\ UNCHANGED <<scan_run, run_hist>>
    /\ UNCHANGED <<engineVars, fnVars, stagingVars, hostVars>>

\* scanner.py:477-482: after the last source the candidates of all profiles are
\* persisted and the pass returns its results; no scan_run row is written on this
\* branch
scan_sources_end ==
    /\ job.pc = "sources"
    /\ job.idx > Len(job.source_dbs)
    /\ \E staged \in {persist_candidates(candidates, objects, job.total_profiles,
                                          {}, {})} :
           /\ candidates' = staged.candidates
           /\ objects' = staged.objects
    /\ job' = [job EXCEPT !.pc = "done"]
    /\ UNCHANGED <<source_dbs, scan_run, run_hist, scan_profile>>
    /\ UNCHANGED <<matcherVars, fnVars, hostVars>>

\* scanner/main.py:18-52: the job process ends; a later run of the job starts anew
job_exit ==
    /\ job.pc = "done"
    /\ job' = IdleJob
    /\ UNCHANGED <<source_dbs, scan_run, run_hist>>
    /\ UNCHANGED <<engineVars, fnVars, stagingVars, hostVars>>

-----------------------------------------------------------------------------
(* Pure-function harness: Init draws the inputs, one action applies the function *)

NoOut == [none |-> TRUE]

\* Field names of the harness. FieldG is a name that itself holds ':' and '|'
\* (key_fields is free JSON: api_gateway/main.py:723 stores it unvalidated).
FieldA == << "a" >>
FieldB == << "b" >>
FieldG == << "a", ":", "1", "|", "a", ":", "2", "|", "a" >>
FnFields == {FieldA, FieldB, FieldG}

\* Values of field a: absent/None, empty, padded, mixed case, and two values that
\* hold the separators.
FnValuesA ==
    { None, <<>>, << " ", "1" >>, << "1" >>, << "A", "1" >>, << "a", "1" >>,
      << "1", "|", "a", ":", "2" >>, << "2", "|", "a", ":", "1" >> }
FnChangedValues ==
    { None, << "1" >>, << "a", "1" >>, << "2", "|", "a", ":", "1" >> }
FnValuesB == { None, << "1" >>, << "2" >> }
FnValuesG == { None, << "1" >> }

FnRecords ==
    { [f \in FnFields |-> CASE f = FieldA -> a [] f = FieldB -> b [] OTHER -> g] :
        a \in FnValuesA, b \in FnValuesB, g \in FnValuesG }
    \cup { [f \in {FieldB} |-> b] : b \in FnValuesB }

FnKeyFields ==
    { <<>>, <<FieldA>>, <<FieldA, FieldB>>, <<FieldA, FieldG>>, <<FieldA, FieldA>>,
      <<FieldB, FieldA, FieldG>> }

FnPolicies ==
    { [f \in {} |-> "trim"],
      [f \in {FieldA} |-> "lowercase"],
      [f \in {FieldA, FieldB} |-> IF f = FieldA THEN "digits_only" ELSE "uppercase"],
      [f \in {FieldA} |-> "alphanumeric_only"],
      [f \in {FieldA} |-> "no_such_policy"] }

\* All orders of the indices 1..n
IndexOrders(n) == { p \in [1..n -> 1..n] : \A i, j \in 1..n : i # j => p[i] # p[j] }

Reordered(k, p) == [i \in 1..Len(k) |-> k[p[i]]]

\* The record with one field given another value
Changed(r, f, v) == [x \in DOMAIN r \cup {f} |-> IF x = f THEN v ELSE r[x]]

\* The inputs of one round of compute_golden_id calls: a record, a rule's key_fields
\* and policies, a reordering of key_fields, and one field given another value.
FnInit ==
    /\ \E k \in FnKeyFields :
         \E r \in FnRecords, n \in FnPolicies, p \in IndexOrders(Len(k)),
            f \in FnFields, v \in FnChangedValues :
              fn_in = [record |-> r, key_fields |-> k, policies |-> n, order |-> p,
                       field |-> f, value |-> v]
    /\ fn_out = NoOut

\* test_identity.py:28-37: compute_golden_id on the record, on the same record with
\* key_fields reordered, and on the record with one field changed.
ComputeGoldenIdCalls ==
    /\ fn_out = NoOut
    /\ fn_out' =
         [ id         |-> compute_golden_id(fn_in.record, fn_in.key_fields, fn_in.policies),
           id_again   |-> compute_golden_id(fn_in.record,
                                            Reordered(fn_in.key_fields, fn_in.order),
                                            fn_in.policies),
           id_changed |-> compute_golden_id(Changed(fn_in.record, fn_in.field, fn_in.value),
                                            fn_in.key_fields, fn_in.policies) ]
    /\ UNCHANGED <<fn_in>>
    /\ UNCHANGED <<engineVars, scanVars, hostVars>>

\* The columns of the tables profile_table is applied to: an integer key, a json
\* document (COUNT(DISTINCT ..) has no equality operator for json) and a text column
\* that is NULL in one row
ProfiledColumns(row_count) ==
    { Column("id", "integer", row_count, 0),
      Column("doc", "json", row_count, 0),
      Column("note", "text", IF row_count > 0 THEN row_count - 1 ELSE 0,
             IF row_count > 0 THEN 1 ELSE 0) }

MaxRowCount == 2
MaxColumns == 3

ColumnNames(columns) == { columns[i].column_name : i \in 1..Len(columns) }

\* A table of up to three columns in any order, and the columns whose statistics
\* query fails
ProfileInit ==
    /\ \E row_count \in 0..MaxRowCount, n \in 0..MaxColumns :
         \E columns \in [1..n -> ProfiledColumns(row_count)] :
            \E bad_columns \in SUBSET ColumnNames(columns) :
               /\ \A i, j \in 1..n : i # j => columns[i] # columns[j]
               /\ fn_in = [table |-> Table(CUSTOMERS, row_count, columns,
                                          IF row_count > 0 THEN Row(<< "1" >>)
                                          ELSE NoSample),
                           bad_columns |-> bad_columns]
    /\ fn_out = NoOut
    /\ EngineInit
    /\ ScanInit

\* scanner.py:110-186: profile_table on the table
ProfileTableCall ==
    /\ fn_out = NoOut
    /\ fn_out' = profile_table(fn_in.table, fn_in.bad_columns)
    /\ UNCHANGED <<fn_in>>
    /\ UNCHANGED <<engineVars, scanVars, hostVars>>

\* The values and policy names normalize_value is applied to: None and every string
\* of up to MaxValueLen characters (whitespace, both cases, a digit, punctuation);
\* the five policies, a name in another case, an unknown name and the empty name
MaxValueLen == 3
NormalizeAlphabet == { " ", "A", "b", "1", "-" }
NormalizePolicies ==
    { "lowercase", "uppercase", "digits_only", "alphanumeric_only", "trim",
      "Lowercase", "no_such_policy", "" }

NormalizeInit ==
    /\ \E n \in 0..MaxValueLen, policy \in NormalizePolicies :
         \E value \in [1..n -> NormalizeAlphabet] \cup {None} :
            fn_in = [value |-> value, policy |-> policy]
    /\ fn_out = NoOut
    /\ EngineInit
    /\ ScanInit

\* test_identity.py:7-14: normalize_value on the value with the policy
NormalizeValueCall ==
    /\ fn_out = NoOut
    /\ fn_out' = [normalized |-> normalize_value(fn_in.value, fn_in.policy)]
    /\ UNCHANGED <<fn_in>>
    /\ UNCHANGED <<engineVars, scanVars, hostVars>>

\* The table names and blacklists is_table_blacklisted is applied to: every name of
\* up to MaxNameLen letters of both cases with three longer names, and every list of
\* up to MaxPatterns of the patterns
MaxNameLen == 3
MaxPatterns == 2
TEMP_CUSTOMERS ==
    << "t", "e", "m", "p", "_", "c", "u", "s", "t", "o", "m", "e", "r", "s" >>
TEMP_CUSTOMERS_MIXED ==
    << "T", "E", "M", "P", "_", "C", "u", "s", "t", "o", "m", "e", "r", "s" >>
CUSTOMERS_TEMP ==
    << "c", "u", "s", "t", "o", "m", "e", "r", "s", "_", "t", "e", "m", "p" >>
TEMP_PATTERN == << "t", "e", "m", "p", "_", "%" >>
BlacklistPatterns ==
    { <<>>, << "%" >>, << "a", "%" >>, << "%", "B" >>, << "A", "?" >>, << "a", "b" >>,
      << "*", "a" >>, << "a", "%", "a" >>, TEMP_PATTERN }

BlacklistInit ==
    /\ \E n \in 0..MaxNameLen, k \in 0..MaxPatterns :
         \E table_name \in [1..n -> { "a", "A", "b" }]
                \cup { TEMP_CUSTOMERS, TEMP_CUSTOMERS_MIXED, CUSTOMERS_TEMP },
            blacklist \in [1..k -> BlacklistPatterns] :
               fn_in = [table_name |-> table_name, blacklist |-> blacklist]
    /\ fn_out = NoOut
    /\ EngineInit
    /\ ScanInit

\* scanner.py:76-86: is_table_blacklisted on the name with the blacklist
IsTableBlacklistedCall ==
    /\ fn_out = NoOut
    /\ fn_out' = [blacklisted |-> is_table_blacklisted(fn_in.table_name, fn_in.blacklist)]
    /\ UNCHANGED <<fn_in>>
    /\ UNCHANGED <<engineVars, scanVars, hostVars>>

\* The profiles persist_candidates is applied to: up to MaxProfiles profiles of
\* different tables of a source, in any order, with the tables whose candidate
\* INSERT fails and those whose demo object INSERT fails
MaxProfiles == 3

CandidateProfiles ==
    { profile_table(SourceTables("db1")[i], {}) : i \in 1..Len(SourceTables("db1")) }

CandidateInit ==
    /\ \E n \in 0..MaxProfiles :
         \E profiles \in [1..n -> CandidateProfiles] :
            \E bad_candidates \in SUBSET ProfiledTableNames(profiles),
               bad_objects \in SUBSET ProfiledTableNames(profiles) :
                 /\ \A i, j \in 1..n : i # j => profiles[i] # profiles[j]
                 /\ fn_in = [profiles |-> profiles, bad_candidates |-> bad_candidates,
                             bad_objects |-> bad_objects]
    /\ fn_out = NoOut
    /\ EngineInit
    /\ ScanInit

\* scanner.py:555-645: persist_candidates on the profiles
PersistCandidatesCall ==
    /\ fn_out = NoOut
    /\ \E stored \in { persist_candidates(candidates, objects, fn_in.profiles,
                                           fn_in.bad_candidates, fn_in.bad_objects) } :
          /\ candidates' = stored.candidates
          /\ objects' = stored.objects
    /\ fn_out' = [returned |-> TRUE]
    /\ UNCHANGED <<fn_in, source_dbs, scan_run, run_hist, job, scan_profile>>
    /\ UNCHANGED <<matcherVars, hostVars>>

\* The inputs of compute_golden_id on two records under one rule: the values of the
\* fields a and b are absent, empty, plain, or hold the separators '|' and ':'
KeyValues ==
    { None, <<>>, << "1" >>, << "3" >>, << "1", "|", "b", ":", "2" >>,
      << "2", "|", "b", ":", "3" >> }

KeyRecords == { [f \in {FieldA, FieldB} |-> IF f = FieldA THEN a ELSE b] :
                  a \in KeyValues, b \in KeyValues }

KeyRules ==
    { [key_fields |-> k, policies |-> n] :
        k \in { <<FieldA>>, <<FieldA, FieldB>>, <<FieldB, FieldA>> },
        n \in { [f \in {} |-> "trim"], [f \in {FieldB} |-> "digits_only"] } }

KeyInit ==
    /\ \E rule \in KeyRules, r1 \in KeyRecords, r2 \in KeyRecords :
         fn_in = [key_fields |-> rule.key_fields, policies |-> rule.policies,
                  record |-> r1, other |-> r2]
    /\ fn_out = NoOut
    /\ EngineInit
    /\ ScanInit

\* matcher.py:43-60: compute_golden_id on each of the two records; the string that
\* is hashed (matcher.py:59) is kept beside the id
KeyStringCalls ==
    /\ fn_out = NoOut
    /\ fn_out' =
         [ key_string |-> key_string(fn_in.record, fn_in.key_fields, fn_in.policies),
           id |-> compute_golden_id(fn_in.record, fn_in.key_fields, fn_in.policies),
           other_key_string |-> key_string(fn_in.other, fn_in.key_fields, fn_in.policies),
           other_id |-> compute_golden_id(fn_in.other, fn_in.key_fields, fn_in.policies) ]
    /\ UNCHANGED <<fn_in>>
    /\ UNCHANGED <<engineVars, scanVars, hostVars>>

-----------------------------------------------------------------------------
(* Specifications *)

FnParked == fn_in = NoOut /\ fn_out = NoOut

Init == EngineInit /\ FnParked /\ ScanInit

\* Clients post rules and call match_and_upsert concurrently (one API worker each).
Next ==
    \/ \E rule \in RuleInputs : create_identity_rule(rule) /\ UNCHANGED histVars
    \/ \E c \in Callers, ss \in SourceSystems, id \in SourceIds, ot \in ObjectTypes,
          attrs \in AttributeSets :
            match_fetch(c, ss, id, ot, attrs) /\ UNCHANGED histVars
    \/ \E c \in Callers : match_upsert(c) /\ UNCHANGED histVars
    \/ \E c \in Callers : match_return(c) /\ UNCHANGED histVars

Spec == Init /\ [][Next]_vars

\* One client calling match_and_upsert again and again while rules are posted; the
\* history variables keep its previous call.
SeqCaller == "c1"

SeqNext ==
    \/ \E rule \in RuleInputs : create_identity_rule(rule) /\ NoteRuleChange
    \/ \E ss \in SourceSystems, id \in SourceIds, ot \in ObjectTypes,
          attrs \in AttributeSets :
            match_fetch(SeqCaller, ss, id, ot, attrs) /\ UNCHANGED histVars
    \/ match_upsert(SeqCaller) /\ UNCHANGED histVars
    \/ match_return(SeqCaller) /\ Remember(SeqCaller)

SeqSpec == Init /\ [][SeqNext]_vars

FnNext == ComputeGoldenIdCalls

FnSpecInit == FnInit /\ EngineInit /\ ScanInit

FnSpec == FnSpecInit /\ [][FnNext]_vars

\* Two runs of the identity worker at the same time, each with or without --dry-run
WorkerNext ==
    \/ \E w \in Workers, dry_run \in BOOLEAN : worker_start(w, dry_run)
    \/ \E w \in Workers : worker_select(w)
    \/ \E w \in Workers : worker_write(w)
    \/ \E w \in Workers : worker_return(w)
    \/ \E w \in Workers : worker_exit(w)

\* The table demo_customers is missing or was created before, without a timestamp
WorkerInit ==
    /\ \E table \in { NoTable, ExistingCustomers } : EngineInitWith(table)
    /\ FnParked
    /\ ScanInit

WorkerSpec == WorkerInit /\ [][WorkerNext]_vars

\* The bodies a client may post to /identity/rules: the handler reads every field
\* with dict.get, so rule_id, key_fields and active may each be left out
RuleBodies ==
    { id @@ [object_type |-> CUSTOMER, source_system |-> DEMO] @@ k @@ a :
        id \in { [f \in {} |-> f] } \cup { [rule_id |-> i] : i \in RuleIds },
        k \in { [f \in {} |-> f], [key_fields |-> << EMAIL >>] },
        a \in { [f \in {} |-> f], [active |-> FALSE] } }

\* main.py:719-726: the parameters of the INSERT, each with the default of its get
rule_parameters(rule) ==
    [rule_id |-> rule.rule_id,
     object_type |-> DictGet(rule, "object_type", None),
     source_system |-> DictGet(rule, "source_system", None),
     key_fields |-> DictGet(rule, "key_fields", <<>>),
     normalization_rules |-> DictGet(rule, "normalization_rules", [f \in {} |-> "trim"]),
     active |-> DictGet(rule, "active", TRUE)]

\* main.py:694-728: POST /identity/rules; a body without rule_id is answered with
\* status 400 before anything is written
post_identity_rule(rule) ==
    IF "rule_id" \notin DOMAIN rule
    THEN UNCHANGED vars
    ELSE create_identity_rule(rule_parameters(rule)) /\ UNCHANGED histVars

\* Clients post rules while one run of the identity worker after the other goes on
RuleStoreNext ==
    \/ \E rule \in RuleBodies : post_identity_rule(rule)
    \/ worker_start("w1", FALSE)
    \/ worker_select("w1")
    \/ worker_write("w1")
    \/ worker_return("w1")
    \/ worker_exit("w1")

RuleStoreSpec == Init /\ [][RuleStoreNext]_vars

NormalizeNext == NormalizeValueCall

\* normalize_value applied to one value with one policy
NormalizeSpec == NormalizeInit /\ [][NormalizeNext]_vars

BlacklistNext == IsTableBlacklistedCall

\* is_table_blacklisted applied to one table name with one blacklist
BlacklistSpec == BlacklistInit /\ [][BlacklistNext]_vars

CandidateNext == PersistCandidatesCall

\* persist_candidates applied to one list of profiles
CandidateSpec == CandidateInit /\ [][CandidateNext]_vars

KeyNext == KeyStringCalls

\* compute_golden_id applied to two records under one rule
KeySpec == KeyInit /\ [][KeyNext]_vars

\* Operations of the three classes one after the other, in one process
ConnectionNext ==
    \/ \E class \in ConnectingClasses : own_connection_operation(class)
    \/ scanner_edna_operation
    \/ finalise_connection

ConnectionSpec == Init /\ [][ConnectionNext]_vars

ProfileNext == ProfileTableCall

\* profile_table applied to one table
ProfileSpec == ProfileInit /\ [][ProfileNext]_vars

\* A POST /source-databases body that supplies no password
SourceConfig(source_db_id, active, table_blacklist) ==
    [source_db_id |-> source_db_id, active |-> active,
     table_blacklist |-> table_blacklist,
     password_encrypted |-> "None", password |-> "None", metadata_password |-> "absent"]

\* The sources clients register: db1 with or without a blacklist of its own
SourceConfigs ==
    { SourceConfig("db1", a, b) : a \in BOOLEAN, b \in { <<>>, << TBL_PATTERN >> } }
    \cup { SourceConfig("db2", a, <<>>) : a \in BOOLEAN }

\* The sources registered without a blacklist of their own
PlainConfigs == { db_config \in SourceConfigs : db_config.table_blacklist = <<>> }

RegisteredSource == "db1"

\* The bodies clients post for the source db1: any blacklist and activity, and every
\* way of giving or not giving a password
RegistryConfigs ==
    { [SourceConfig(RegisteredSource, a, b) EXCEPT
          !.password_encrypted = pe, !.password = pw, !.metadata_password = mp] :
        a \in BOOLEAN, b \in { <<>>, << TBL_PATTERN >> },
        pe \in {"None", "", "s1"}, pw \in {"None", "s2"},
        mp \in {"absent", "None", "", "s3"} }

\* POST /source-databases again and again for one source; fn_in keeps the body of
\* the last call
RegistryNext ==
    \E db_config \in RegistryConfigs :
        /\ source_dbs' = upsert_source_database(source_dbs, db_config)
        /\ fn_in' = db_config
        /\ UNCHANGED <<fn_out, scan_run, run_hist, job>>
        /\ UNCHANGED <<engineVars, stagingVars, hostVars>>

RegistrySpec == Init /\ [][RegistryNext]_vars

\* The names of all tables of the model
AllTableNames == {CUSTOMERS, EDNA_OBJECTS, EDNA_LOG, TBL_ORDERS}

\* The steps of the scanner job when every table can be profiled
ScannerNext ==
    \/ scan_begin
    \/ fallback_create_run
    \/ fallback_scan({})
    \/ fallback_finish
    \/ scan_source({})
    \/ scan_sources_end
    \/ job_exit

\* The steps of the scanner job when profiling any table may fail
FailingScannerNext ==
    \/ scan_begin
    \/ fallback_create_run
    \/ fallback_scan(AllTableNames)
    \/ fallback_finish
    \/ scan_source(AllTableNames)
    \/ scan_sources_end
    \/ job_exit

\* The API gateway's writers of the scanner's tables
ScanApiNext ==
    \/ \E ss \in {"", "crm"} : api_create_scan_run(ss)
    \/ \E db_config \in PlainConfigs : create_source_database(db_config)
    \/ \E d \in SourceDbIds : delete_source_database(d)

ScanNext == ScannerNext \/ ScanApiNext

\* The scanner job beside the API gateway
ScanSpec == Init /\ [][ScanNext]_vars

\* A deployment with one registered, active source, which is never removed: the
\* scanner job is run again and again (a step of the job that can be taken is taken)
\* while clients post scan runs and register a second source.

FairScanInit ==
    /\ EngineInit
    /\ FnParked
    /\ source_dbs = [d \in SourceDbIds |->
                        IF d = RegisteredSource
                        THEN [active |-> TRUE, table_blacklist |-> <<>>,
                              password_encrypted |-> "",
                              last_scan_status |-> "None", last_scan_error |-> "None"]
                        ELSE NoSource]
    /\ scan_run = <<>>
    /\ run_hist = <<>>
    /\ job = IdleJob
    /\ candidates = {}
    /\ scan_profile = [tables |-> {}, columns |-> {}]

FairScannerNext ==
    \/ scan_begin
    \/ scan_source({})
    \/ scan_sources_end
    \/ job_exit

FairScanNext ==
    \/ FairScannerNext
    \/ \E ss \in {"", "crm"} : api_create_scan_run(ss)
    \/ \E db_config \in PlainConfigs :
            /\ db_config.source_db_id # RegisteredSource
            /\ create_source_database(db_config)

FairScanSpec == FairScanInit /\ [][FairScanNext]_vars /\ WF_vars(FairScannerNext)

\* The tracker's operations as a caller of the Scanner class may use them, beside
\* the passes of the scanner job, with and without a registered source
TrackerNext ==
    \/ ScannerNext
    \/ create_scan_run(FallbackSource)
    \/ \E id \in 1..MaxScanRuns, st \in ScanStatuses :
            update_scan_run_status(id, st, EmptyMetrics)
    \/ create_source_database(SourceConfig(RegisteredSource, TRUE, <<>>))

TrackerSpec == Init /\ [][TrackerNext]_vars

\* The passes of the scanner job, in which profiling a table may fail, while clients
\* register active sources and change their blacklists
PassNext ==
    \/ FailingScannerNext
    \/ \E db_config \in SourceConfigs :
            /\ db_config.active
            /\ create_source_database(db_config)

PassSpec == Init /\ [][PassNext]_vars

-----------------------------------------------------------------------------
(* Claims C1-C7: the Identity Rule Engine *)

TupleRows(objs, a) == RowsFor(objs, a.source_system, a.source_id, a.object_type)

Upserting(c) == pc[c] = "fetched" /\ pc'[c] = "done"

\* C1: when match_and_upsert returns for a source tuple that already had a row, the
\* stored row's attributes are those of the call, its golden_id is the fingerprint
\* computed for the call, and that fingerprint is the value returned.
C1_UpsertOverwritesIdAndAttributes ==
    [][\A c \in Callers :
        (Upserting(c) /\ TupleRows(objects, call[c]) # {}) =>
            /\ \A o \in TupleRows(objects', call[c]) :
                 o.attributes = call[c].attributes /\ o.golden_id = computed[c]
            /\ ret'[c] = computed[c]]_vars

\* C2: a second call with the arguments of the caller's previous call, the rule store
\* unchanged since that call returned, leaves exactly one row for the source tuple and
\* returns the golden_id the previous call returned, which is the stored one.
C2_SecondIdenticalCallSameId ==
    (/\ pc[SeqCaller] = "done"
     /\ prev[SeqCaller] # NoPrev
     /\ prev[SeqCaller].call = call[SeqCaller]
     /\ ~dirty[SeqCaller])
    => /\ Cardinality(TupleRows(objects, call[SeqCaller])) = 1
       /\ ret[SeqCaller] = prev[SeqCaller].ret
       /\ \A o \in TupleRows(objects, call[SeqCaller]) : o.golden_id = ret[SeqCaller]

\* C2 witness: an identical second call has returned, made under an identity rule.
C2_Witness ==
    /\ pc[SeqCaller] = "done"
    /\ prev[SeqCaller] # NoPrev
    /\ prev[SeqCaller].call = call[SeqCaller]
    /\ ~dirty[SeqCaller]
    /\ applied[SeqCaller] # NoRuleId

CallTuples ==
    { [source_system |-> ss, source_id |-> id, object_type |-> ot] :
        ss \in SourceSystems, id \in SourceIds, ot \in ObjectTypes }

\* C3: under any interleaving of concurrent calls there is at most one row per
\* (source_system, source_id, object_type); a call that has fetched its rules can
\* always run its upsert, and a call that returned has returned a golden_id.
C3_OneRowPerTupleUnderConcurrency ==
    /\ \A t \in CallTuples : Cardinality(TupleRows(objects, t)) <= 1
    /\ \A c \in Callers :
        /\ pc[c] = "fetched" => ENABLED match_upsert(c)
        /\ pc[c] = "done" =>
             /\ ret[c] # NoId
             /\ \E o \in TupleRows(objects, call[c]) : o.golden_id = ret[c]

\* C3 witness: two calls for the same tuple with different attributes were in flight
\* together, both have returned, and one row stands.
C3_Witness ==
    \E c, d \in Callers :
        /\ c # d
        /\ pc[c] = "done" /\ pc[d] = "done"
        /\ SameTuple(call[c], call[d])
        /\ call[c].attributes # call[d].attributes
        /\ overlap[c]
        /\ Cardinality(TupleRows(objects, call[c])) = 1

\* The row with the smallest rule_id (string order)
LowestRule(S) == CHOOSE r \in S : \A q \in S : ~StrLess(q.rule_id, r.rule_id)

\* C4: with several active rules for (object_type, source_system) the rule applied
\* is the one with the smallest rule_id, whatever order the store returns them in,
\* and the golden_id is the one computed under that rule.
C4_LowestRuleIdApplied ==
    [][\A c \in Callers :
        (pc[c] = "idle" /\ pc'[c] = "fetched") =>
            LET a == call'[c]
                act == ActiveRuleRows(a.object_type, a.source_system)
            IN  act # {} =>
                  /\ applied'[c] = LowestRule(act).rule_id
                  /\ computed'[c] =
                       local_golden_id(<<LowestRule(act)>>, a.source_system, a.source_id,
                                       a.object_type, a.attributes)]_vars

\* C7: with no active rule for (object_type, source_system) the call stores and
\* returns the SHA-1 of "source_system|source_id|object_type"; a rule that is applied
\* is an active rule of that (object_type, source_system).
C7_NoRuleFallbackId ==
    [][\A c \in Callers :
        /\ (Upserting(c) /\ applied[c] = NoRuleId) =>
             LET fb == fallback_golden_id(call[c].source_system, call[c].source_id,
                                          call[c].object_type)
             IN  /\ \A o \in TupleRows(objects', call[c]) : o.golden_id = fb
                 /\ TupleRows(objects', call[c]) # {}
                 /\ ret'[c] = fb
        /\ (pc[c] = "idle" /\ pc'[c] = "fetched") =>
             (applied'[c] = NoRuleId) =
                (ActiveRuleRows(call'[c].object_type, call'[c].source_system) = {})]_vars

-----------------------------------------------------------------------------
(* Claims C5-C6: compute_golden_id *)

\* C5: compute_golden_id gives the same id for key_fields in any order.
C5_KeyFieldOrderIrrelevant ==
    fn_out # NoOut => fn_out.id = fn_out.id_again

\* C5 witness: the call was made with key_fields reordered so that the items
\* "field:value" are built in another order.
C5_Witness ==
    /\ fn_out # NoOut
    /\ key_values(fn_in.record, fn_in.key_fields, fn_in.policies)
         # key_values(fn_in.record, Reordered(fn_in.key_fields, fn_in.order), fn_in.policies)

FnNormalized(r, f) ==
    normalize_value(DictGet(r, f, None), DictGet(fn_in.policies, f, "trim"))

\* The changed field is a key field and its normalized value differs
OneKeyValueChanged ==
    /\ fn_out # NoOut
    /\ \E i \in 1..Len(fn_in.key_fields) : fn_in.key_fields[i] = fn_in.field
    /\ FnNormalized(fn_in.record, fn_in.field)
         # FnNormalized(Changed(fn_in.record, fn_in.field, fn_in.value), fn_in.field)

HasColon(name) == \E i \in 1..Len(name) : name[i] = ":"

ColonFreeKeyFields == \A i \in 1..Len(fn_in.key_fields) : ~HasColon(fn_in.key_fields[i])

-----------------------------------------------------------------------------
(* Claims C8-C10: the Scan Run Tracker *)

Terminal == {"SUCCESS", "FAILED"}

\* C8: a scan run's status is PENDING, SUCCESS or FAILED, and no step of
\* create_scan_run, update_scan_run_status or scan_source_databases changes the status
\* of a run that is SUCCESS or FAILED.
C8_TerminalStatusIsFinal ==
    [][/\ \A i \in 1..Len(scan_run') : scan_run'[i].status \in ScanStatuses
       /\ \A i \in 1..Len(scan_run) :
            scan_run[i].status \in Terminal => scan_run'[i].status = scan_run[i].status]_vars

\* C9: every pass of scan_source_databases has its scan run: PENDING while the pass
\* scans, and when the pass ends updated once, to SUCCESS with total_tables and
\* total_rows or to FAILED with error; against "demo-db" when no source is registered;
\* SUCCESS when nothing raised.
C9_EveryPassHasItsRun ==
    /\ job.pc \in {"fallback_scan", "fallback_finish", "sources"} =>
         /\ job.scan_run_id \in 1..Len(scan_run)
         /\ scan_run[job.scan_run_id].status = "PENDING"
    /\ job.pc = "done" =>
         /\ job.scan_run_id \in 1..Len(scan_run)
         /\ run_hist[job.scan_run_id].origin = "scanner"
         /\ run_hist[job.scan_run_id].updates = 1
         /\ scan_run[job.scan_run_id].ended
         /\ \/ /\ scan_run[job.scan_run_id].status = "SUCCESS"
               /\ DOMAIN scan_run[job.scan_run_id].metrics = {"total_tables", "total_rows"}
            \/ /\ scan_run[job.scan_run_id].status = "FAILED"
               /\ DOMAIN scan_run[job.scan_run_id].metrics = {"error"}
         /\ job.source_dbs = <<>> => scan_run[job.scan_run_id].source_system = FallbackSource
         /\ ~job.raised => scan_run[job.scan_run_id].status = "SUCCESS"

\* C10: every run inserted PENDING by POST /scan-runs eventually is SUCCESS or FAILED.
C10_ApiRunEventuallyTerminal ==
    \A i \in 1..MaxScanRuns :
        (i <= Len(scan_run) /\ run_hist[i].origin = "api" /\ scan_run[i].status = "PENDING")
            ~> (i <= Len(scan_run) /\ scan_run[i].status \in Terminal)

\* No step of the scanner job or of the API gateway changes a run inserted by
\* POST /scan-runs (the reason C10 fails in every behaviour that has such a run).
ApiRunsStayPending ==
    \A i \in 1..Len(scan_run) :
        run_hist[i].origin = "api" => scan_run[i].status = "PENDING" /\ ~scan_run[i].ended

-----------------------------------------------------------------------------
(* Claims C11-C20: the scanner's passes and stores *)

EDNA_PREFIX == << "e", "d", "n", "a", "_" >>

ProfiledTables(profiles) == { profiles[i].table : i \in 1..Len(profiles) }

\* C11: no pass, with registered sources or in the no-sources fallback, profiles a
\* table whose name starts with 'edna_'.
C11_NoInternalTableProfiled ==
    \A table \in ProfiledTables(job.profiles) \cup ProfiledTables(job.total_profiles) :
        ~StartsWith(table, EDNA_PREFIX)

\* The part of C11 that holds: the passes over registered sources profile no table
\* whose name matches 'edna_%', whatever the source's own blacklist.
RegisteredPassSkipsInternalTables ==
    \A table \in ProfiledTables(job.total_profiles) :
        ~is_table_blacklisted(table, << EDNA_PATTERN >>)

\* The profiles a pass holds for its i-th scan: those of the i-th source, or the
\* fallback pass's profiles
ProfilesOfScan(i) ==
    IF job.source_dbs = <<>> THEN job.profiles
    ELSE SelectSeq(job.total_profiles,
                   LAMBDA profile : profile.source_db_id = job.source_dbs[i].source_db_id)

\* The tables the i-th scan of a pass read
TablesOfScan(i) ==
    IF job.source_dbs = <<>> THEN PublicTables
    ELSE SourceTables(job.source_dbs[i].source_db_id)

SourceOfScan(i) ==
    IF job.source_dbs = <<>> THEN "" ELSE job.source_dbs[i].source_db_id

\* What profile_table returns for the table of that name when nothing fails
FailureFreeProfile(i, name) ==
    LET tables == TablesOfScan(i)
        k == CHOOSE j \in 1..Len(tables) : tables[j].table_name = name
    IN  WithSource(profile_table(tables[k], {}), SourceOfScan(i))

\* C12: whichever tables' profile_table raises in a scan_all_tables call, every other
\* enumerated table is profiled, once, and its profile is the one it has when nothing
\* fails; the failing tables have no profile.
C12_OtherTablesStillProfiled ==
    \A i \in 1..Len(job.outcomes) :
        LET outcome == job.outcomes[i]
            profiles == ProfilesOfScan(i)
        IN  /\ \A k \in 1..Len(outcome.enumerated) :
                  outcome.enumerated[k] \notin outcome.failing =>
                      Cardinality({ j \in 1..Len(profiles) :
                          profiles[j] = FailureFreeProfile(i, outcome.enumerated[k]) }) = 1
            /\ \A j \in 1..Len(profiles) :
                  /\ profiles[j].table \notin outcome.failing
                  /\ \E k \in 1..Len(outcome.enumerated) :
                        outcome.enumerated[k] = profiles[j].table

\* A scan whose first enumerated table failed to profile and whose second one was
\* profiled
C12_Witness ==
    \E i \in 1..Len(job.outcomes) :
        /\ Len(job.outcomes[i].enumerated) >= 2
        /\ job.outcomes[i].enumerated[1] \in job.outcomes[i].failing
        /\ job.outcomes[i].enumerated[2] \notin job.outcomes[i].failing
        /\ Len(ProfilesOfScan(i)) >= 1

\* One step of the loop over the registered sources
SourceScanned == job.pc = "sources" /\ job'.pc = "sources" /\ job'.idx = job.idx + 1

\* The pass went through its loop over the registered sources
LoopEnded == job.pc = "done" /\ job.source_dbs # <<>>

ReportedFailed(result) ==
    IF "tables_failed" \in DOMAIN result THEN result.tables_failed ELSE 0

\* C14: the result of every source scanned accounts for every enumerated table, as
\* profiled or as failed.
C14_ResultAccountsForEveryTable ==
    \A i \in 1..Len(job.database_results) :
        LET result == job.database_results[i]
        IN  result.status = "success" =>
                result.tables_scanned + ReportedFailed(result)
                    = Len(job.outcomes[i].enumerated)

Stats(column_profile) ==
    [distinct_count |-> column_profile.distinct_count,
     null_count |-> column_profile.null_count,
     null_rate |-> column_profile.null_rate]

NullStats == [distinct_count |-> Null, null_count |-> Null, null_rate |-> Null]

\* C15: profile_table returns one entry per column, in order; the statistics of a
\* column whose query failed are null, those of every other column are the ones of a
\* run in which no query fails.
C15_OtherColumnsKeepTheirStats ==
    fn_out # NoOut =>
        LET columns == fn_in.table.columns
            clean == profile_table(fn_in.table, {}).column_profiles
        IN  /\ Len(fn_out.column_profiles) = Len(columns)
            /\ \A i \in 1..Len(columns) :
                  /\ fn_out.column_profiles[i].column_name = columns[i].column_name
                  /\ Stats(fn_out.column_profiles[i]) =
                        IF columns[i].column_name \in fn_in.bad_columns
                        THEN NullStats
                        ELSE Stats(clean[i])

\* The part of C15 that holds: one entry per column, null statistics for the failing
\* columns, and the failure-free statistics for the columns queried before the first
\* failure.
ColumnsBeforeFailureKeepTheirStats ==
    fn_out # NoOut =>
        LET columns == fn_in.table.columns
            clean == profile_table(fn_in.table, {}).column_profiles
        IN  /\ Len(fn_out.column_profiles) = Len(columns)
            /\ \A i \in 1..Len(columns) :
                  /\ fn_out.column_profiles[i].column_name = columns[i].column_name
                  /\ columns[i].column_name \in fn_in.bad_columns =>
                        Stats(fn_out.column_profiles[i]) = NullStats
                  /\ (\A j \in 1..i : columns[j].column_name \notin fn_in.bad_columns) =>
                        Stats(fn_out.column_profiles[i]) = Stats(clean[i])

\* The body of the call supplies no password
NoPasswordSupplied(db_config) ==
    /\ db_config.password_encrypted = "None"
    /\ db_config.password = "None"
    /\ db_config.metadata_password = "absent"

\* A call of create_source_database for a source that has a row
UpdateCall == source_dbs[RegisteredSource] # NoSource

\* The other fields of the row are those of the call; the scan status is kept
OtherFieldsTaken ==
    /\ source_dbs'[RegisteredSource].active = fn_in'.active
    /\ source_dbs'[RegisteredSource].table_blacklist = fn_in'.table_blacklist
    /\ source_dbs'[RegisteredSource].last_scan_status
          = source_dbs[RegisteredSource].last_scan_status
    /\ source_dbs'[RegisteredSource].last_scan_error
          = source_dbs[RegisteredSource].last_scan_error

C17_RacingWritersNeverFail ==
    \A w \in Workers : worker[w].stats.errors = 0

\* C18: every operation closes the connection it acquired on every exit path: when
\* no operation is running, no connection is open, however many operations ran.
C18_NoConnectionLeftOpen ==
    OpenConnections = 0

\* The fallback pass has called persist_scan_profiles on its profiles
ProfilesPersisted ==
    /\ job.source_dbs = <<>>
    /\ job.pc \in {"fallback_finish", "done"}
    /\ job.profiles # <<>>

\* C19: after persist_scan_profiles the store holds, for every profile, one table
\* row keyed by (scan_run_id, table_name) and one column row for each of its columns,
\* with the profile's values.
C19_ProfileRowsStored ==
    ProfilesPersisted =>
        \A i \in 1..Len(job.profiles) :
            LET profile == job.profiles[i]
                table_name == ProfileTableName(profile)
            IN  /\ Cardinality({ r \in scan_profile.tables :
                                    /\ r.scan_run_id = job.scan_run_id
                                    /\ r.table_name = table_name
                                    /\ r.row_count = profile.row_count }) = 1
                /\ \A k \in 1..Len(profile.column_profiles) :
                      Cardinality({ r \in scan_profile.columns :
                          /\ r.scan_run_id = job.scan_run_id
                          /\ r.table_name = table_name
                          /\ r.column_name = profile.column_profiles[k].column_name
                          /\ r.distinct_count
                                = profile.column_profiles[k].distinct_count }) = 1

\* C20: after persist_candidates on the profiles of all the sources of a pass, every
\* profile has exactly one candidate row, keyed by (schema, table), that carries
\* guess_object_type(table) and the row count of that profile.
C20_CandidatePerProfile ==
    LoopEnded =>
        \A i \in 1..Len(job.total_profiles) :
            LET profile == job.total_profiles[i]
            IN  Cardinality({ c \in candidates :
                    /\ c.schema = profile.schema
                    /\ c.table_name = profile.table
                    /\ c.guess_type = guess_object_type(profile.table)
                    /\ c.row_count = profile.row_count }) = 1

\* The part of C20 that holds: every profile has exactly one candidate row for its
\* (schema, table), with the guessed type and the row count of the last profile of
\* that (schema, table) in the list.
CandidatePerTableName ==
    LoopEnded =>
        \A i \in 1..Len(job.total_profiles) :
            LET profile == job.total_profiles[i]
                same == { k \in 1..Len(job.total_profiles) :
                            /\ job.total_profiles[k].schema = profile.schema
                            /\ job.total_profiles[k].table = profile.table }
                last == CHOOSE k \in same : \A j \in same : j <= k
                rows == { c \in candidates :
                            c.schema = profile.schema /\ c.table_name = profile.table }
            IN  /\ Cardinality(rows) = 1
                /\ \A c \in rows :
                      /\ c.guess_type = guess_object_type(profile.table)
                      /\ c.row_count = job.total_profiles[last].row_count

-----------------------------------------------------------------------------
(* Claims C21-C30 *)

\* C21: in every reachable state of the Rule Store, after any sequence of
\* create_identity_rule calls and default-rule creations by the worker, every
\* active rule has a non-empty key_fields list.
C21_ActiveRuleHasKeyFields ==
    \A r \in RuleRows : r.active => r.key_fields # <<>>

\* The string without its leading and trailing whitespace: what lies between its
\* first and its last character that is not whitespace
Stripped(s) ==
    LET kept == { i \in 1..Len(s) : ~IsSpace(s[i]) }
    IN  IF kept = {} THEN <<>>
        ELSE SubSeq(s, CHOOSE i \in kept : \A j \in kept : i <= j,
                       CHOOSE i \in kept : \A j \in kept : i >= j)

\* The reference normalization of a value under a policy name
NormalizeReference(value, policy) ==
    IF value = None THEN <<>>
    ELSE LET stripped == Stripped(value)
         IN  CASE policy = "lowercase" -> [i \in 1..Len(stripped) |-> LowerChar(stripped[i])]
               [] policy = "uppercase" -> [i \in 1..Len(stripped) |-> UpperChar(stripped[i])]
               [] policy = "digits_only" -> SelectSeq(stripped, IsDigit)
               [] policy = "alphanumeric_only" -> SelectSeq(stripped, IsAlnum)
               [] OTHER -> stripped

\* C22: normalize_value(value, policy) agrees with the reference for every value and
\* every policy name: None gives the empty string; otherwise the stripped string is
\* lowercased, uppercased, reduced to its digits, reduced to its letters and digits,
\* or left as is (trim), and an unrecognized policy name gives the result of trim.
C22_NormalizeAgreesWithReference ==
    fn_out # NoOut =>
        fn_out.normalized = NormalizeReference(fn_in.value, fn_in.policy)

\* A padded value of both cases normalized under an unrecognized policy name
C22_Witness ==
    /\ fn_out # NoOut
    /\ fn_in.policy = "no_such_policy"
    /\ fn_in.value = << " ", "A", "b" >>
    /\ fn_out.normalized = << "A", "b" >>

\* The first i characters of the pattern match the first j characters of the name:
\* '%' (and the glob's own '*') stands for any run of characters, the glob's '?' for
\* any one character, every other character for itself in either case
RECURSIVE PrefixMatches(_, _, _, _)
PrefixMatches(name, pattern, i, j) ==
    IF i = 0 THEN j = 0
    ELSE IF pattern[i] \in { "%", "*" }
         THEN \E k \in 0..j : PrefixMatches(name, pattern, i - 1, k)
    ELSE /\ j > 0
         /\ pattern[i] = "?" \/ LowerChar(pattern[i]) = LowerChar(name[j])
         /\ PrefixMatches(name, pattern, i - 1, j - 1)

GlobMatches(name, pattern) == PrefixMatches(name, pattern, Len(pattern), Len(name))

\* C23: is_table_blacklisted(name, patterns) is true exactly when some pattern of
\* the list, read as a glob with '%' as the wildcard for any run of characters,
\* matches the whole table name ignoring case.
C23_BlacklistedIffSomeGlobMatches ==
    fn_out # NoOut =>
        (fn_out.blacklisted <=>
            \E i \in 1..Len(fn_in.blacklist) :
                GlobMatches(fn_in.table_name, fn_in.blacklist[i]))

\* 'temp_%' matches 'TEMP_Customers', and does not match 'customers_temp'
C23_Witness ==
    /\ fn_out # NoOut
    /\ fn_in.blacklist = << TEMP_PATTERN >>
    /\ \/ fn_in.table_name = TEMP_CUSTOMERS_MIXED /\ fn_out.blacklisted
       \/ fn_in.table_name = CUSTOMERS_TEMP /\ ~fn_out.blacklisted

\* The statistics query of column i is executed without error: neither its own query
\* nor an earlier one of the same transaction fails
ColumnQuerySucceeds(i) ==
    \A j \in 1..i : fn_in.table.columns[j].column_name \notin fn_in.bad_columns

\* C24: profile_table on a table with row_count 0 returns a profile whose null_rate
\* is None (not 0) for every column; when row_count > 0 and the column's query
\* succeeds, null_rate is null_count / row_count.
C24_NullRateOfEveryColumn ==
    fn_out # NoOut =>
        LET columns == fn_in.table.columns
            row_count == fn_in.table.row_count
        IN  /\ Len(fn_out.column_profiles) = Len(columns)
            /\ \A i \in 1..Len(columns) :
                  LET profile == fn_out.column_profiles[i]
                  IN  /\ row_count = 0 => profile.null_rate = Null
                      /\ row_count > 0 /\ ColumnQuerySucceeds(i) =>
                            /\ profile.null_count = Number(columns[i].null_count)
                            /\ profile.null_rate =
                                  [num |-> columns[i].null_count, den |-> row_count]

\* An empty table of three columns was profiled
C24_Witness ==
    /\ fn_out # NoOut
    /\ fn_in.table.row_count = 0
    /\ Len(fn_out.column_profiles) = MaxColumns
    /\ \A i \in 1..MaxColumns : fn_out.column_profiles[i].null_rate = Null

\* A step of a run of the worker that was started with --dry-run
DryRunStep(w) ==
    /\ worker'[w] # worker[w]
    /\ worker[w].dry_run \/ worker'[w].dry_run

\* C25: with dry_run=True, process_customers performs no database write: no step
\* of the run changes the Golden Object store, the Rule Store or the set of tables.
C25_DryRunWritesNothing ==
    [][\A w \in Workers :
          DryRunStep(w) => UNCHANGED <<objects, rules, demo_customers>>]_vars

\* The part of C25 that holds: a dry run leaves the Golden Object store as it is
DryRunLeavesObjects ==
    [][\A w \in Workers : DryRunStep(w) => UNCHANGED objects]_vars

\* A step in which the run counts a row as an error
RowCountedAsError(w) == worker'[w].stats.errors > worker[w].stats.errors

\* C26: in process_customers (not dry-run), an error while writing one source row
\* is counted in 'errors' and does not change the outcome of the rows processed
\* after it on the same connection: no later row is counted as an error because
\* an earlier row's statement failed.
C26_WriteErrorLeavesLaterRowsAlone ==
    [][\A w \in Workers : RowCountedAsError(w) => ~worker[w].aborted]_vars

\* The part of C26 that holds: a row whose write fails is counted in 'errors', and
\* the loop goes on to the next row
FailedRowIsCounted ==
    [][\A w \in Workers :
          RowCountedAsError(w) =>
              /\ worker'[w].stats.errors = worker[w].stats.errors + 1
              /\ worker'[w].idx = worker[w].idx + 1
              /\ worker'[w].pc = "select"]_vars

\* The candidate row of the profile is stored, and its demo object if it has a sample
ProfileWritten(profile) ==
    /\ \E c \in candidates :
          /\ c.schema = profile.schema
          /\ c.table_name = profile.table
          /\ c.row_count = profile.row_count
    /\ profile.sample # NoSample /\ profile.row_count > 0 =>
          \E o \in objects :
             /\ o.source_system = SCANNER
             /\ o.source_id = TEMP_PREFIX \o profile.schema \o << "." >> \o profile.table
             /\ o.attributes = profile.sample

\* C27: in persist_candidates, a failure to write one profile's candidate row or
\* its demo golden object does not prevent the candidate rows and golden objects of
\* the other profiles of the call from being written and committed.
C27_OtherProfilesStillWritten ==
    fn_out # NoOut =>
        \A i \in 1..Len(fn_in.profiles) :
            fn_in.profiles[i].table \notin fn_in.bad_candidates \cup fn_in.bad_objects
                => ProfileWritten(fn_in.profiles[i])

\* The part of C27 that holds: a call in which no statement fails writes the
\* candidate row and the demo object of every profile
FailureFreeCallWritesEveryProfile ==
    fn_out # NoOut /\ fn_in.bad_candidates = {} /\ fn_in.bad_objects = {} =>
        \A i \in 1..Len(fn_in.profiles) : ProfileWritten(fn_in.profiles[i])

\* The two records differ in the normalized value of at least one key field
NormalizedValuesDiffer ==
    \E i \in 1..Len(fn_in.key_fields) :
        FnNormalized(fn_in.record, fn_in.key_fields[i])
            # FnNormalized(fn_in.other, fn_in.key_fields[i])

HasSeparator(value) == \E i \in 1..Len(value) : value[i] \in { "|", ":" }

\* C28: the string hashed by compute_golden_id is an injective encoding of the
\* record's normalized key values: for fixed key_fields and policies, two records
\* whose normalized values differ in at least one key field never produce the same
\* key string, also when values contain the separators '|' or ':'.
C28_KeyStringInjective ==
    fn_out # NoOut /\ NormalizedValuesDiffer =>
        fn_out.key_string # fn_out.other_key_string

\* The part of C28 that holds: the same, when no normalized key value of either
\* record holds a separator
KeyStringInjectiveWithoutSeparators ==
    (/\ fn_out # NoOut
     /\ NormalizedValuesDiffer
     /\ \A i \in 1..Len(fn_in.key_fields) :
           /\ ~HasSeparator(FnNormalized(fn_in.record, fn_in.key_fields[i]))
           /\ ~HasSeparator(FnNormalized(fn_in.other, fn_in.key_fields[i])))
        => fn_out.key_string # fn_out.other_key_string

\* The sum of tables_scanned over the first n result entries with status 'success'
RECURSIVE TablesOfSuccesses(_, _)
TablesOfSuccesses(results, n) ==
    IF n = 0 THEN 0
    ELSE TablesOfSuccesses(results, n - 1)
         + (IF results[n].status = "success" THEN results[n].tables_scanned ELSE 0)

\* C29: when scan_source_databases returns with N >= 1 active registered sources,
\* database_results holds exactly one entry per source, scanned_databases +
\* failed_databases = N, and total_tables is the sum of tables_scanned over the
\* entries with status 'success'.
C29_ResultsAccountForEverySource ==
    LoopEnded =>
        /\ Len(job.database_results) = Len(job.source_dbs)
        /\ \A i \in 1..Len(job.source_dbs) :
              job.database_results[i].source_db_id = job.source_dbs[i].source_db_id
        /\ job.scanned + job.failed = Len(job.source_dbs)
        /\ job.total_tables
              = TablesOfSuccesses(job.database_results, Len(job.database_results))

\* A pass over two sources returned: one failed, the other was scanned with at least
\* one table profiled
C29_Witness ==
    /\ LoopEnded
    /\ Len(job.source_dbs) = 2
    /\ job.failed = 1
    /\ job.scanned = 1
    /\ job.total_tables >= 1

\* The profile of the table of the i-th source is among those the pass hands to
\* persist_candidates
PassedOn(i, key) ==
    \E k \in 1..Len(job.total_profiles) :
        /\ job.total_profiles[k].source_db_id = job.source_dbs[i].source_db_id
        /\ job.total_profiles[k].schema = key.schema
        /\ job.total_profiles[k].table = key.table

\* C30: every table profile produced during a pass of scan_source_databases is
\* passed on to persist_candidates: a failure while enumerating a later schema
\* of a source does not discard the profiles already produced for that source's
\* earlier schemas.
C30_EveryProfilePassedOn ==
    LoopEnded =>
        \A i \in 1..Len(job.outcomes) :
            \A k \in 1..Len(job.outcomes[i].discarded) :
                PassedOn(i, job.outcomes[i].discarded[k])

\* The part of C30 that holds: the profiles of every source whose scan completed
\* are passed on to persist_candidates
ProfilesOfCompletedSourcesPassedOn ==
    LoopEnded =>
        /\ Len(job.total_profiles) = job.total_tables
        /\ \A i \in 1..Len(job.database_results) :
              job.database_results[i].status = "success" =>
                  job.database_results[i].tables_scanned
                      = Cardinality({ k \in 1..Len(job.total_profiles) :
                            job.total_profiles[k].source_db_id
                                = job.source_dbs[i].source_db_id })

====
